---- MODULE Spec2Model ----
(***************************************************************************)
(* Model of the law-copilot backend: the vector store (lazy load, search,  *)
(* context assembly), the LLM service (query rewriting with its fallback,  *)
(* enhanced-query construction, answer generation) and the RAG service     *)
(* that orchestrates rewrite -> embed -> search -> cascade -> generate.    *)
(*                                                                         *)
(* Conventions.  Similarity scores and thresholds are integers scaled by   *)
(* 100 (0.3 is 30).  A text is a sequence of words.  An embedding is an    *)
(* angle on a line; the inner product of two unit vectors decreases with   *)
(* the distance of their angles.  A Python exception is an outcome record  *)
(* with raised = TRUE.  Python's None is the record None.                  *)
(***************************************************************************)
EXTENDS Integers, Sequences, FiniteSets, TLC

\* ------------------------------------------------------------------ bounds
MaxDocs == 2        \* largest number of vectors / records in an artifact
MaxVariants == 3    \* largest length of queries_optimizadas the backend returns
MaxAngleStep == 3   \* query embeddings range over the angles 1, 4, .., 1 + 3 * MaxAngleStep
MaxLoadAttempts == 2  \* failed loads of the vector store that are counted
MaxThreads == 2     \* threads that enter _initialize concurrently
MaxTextLen == 4     \* longest normalized text (in markers) handed to a parser
MaxConstructions == 3  \* LegalEmbedder() calls in one process
MaxEmbedCalls == 2   \* embed_query calls recorded on the singleton

\* ------------------------------------------------------- program constants
rag_top_k == 5                \* settings.rag_top_k
rag_score_threshold == 30     \* settings.rag_score_threshold (0.3)
CascadeNum == 8               \* threshold * 0.8, as the fraction 8 / 10
CascadeDen == 10
MaxConceptos == 4             \* conceptos[:4]
TextLimit == 500              \* text_content[:500]
MinusOne == -1                \* FAISS's index of a missing neighbour

None == [some |-> FALSE]
Some(v) == [some |-> TRUE, v |-> v]

\* Python's `a or b` over an optional number: None and 0 are falsy.
PyOr(a, b) == IF a.some /\ a.v # 0 THEN a.v ELSE b

\* ------------------------------------------------------------------- texts
NO_RESULTS_CONTEXT == <<"No se encontraron artículos relevantes.">>
NO_RESULTS_ANSWER == <<"No encontré artículos relevantes para tu consulta en la base de datos legal.">>
NO_IDENTIFICADO == "No identificado"
SEP == "|"

RECURSIVE Flatten(_)
\* " ".join(texts): the words of the texts, in order.
Flatten(texts) ==
    IF texts = <<>> THEN <<>> ELSE Head(texts) \o Flatten(Tail(texts))

RECURSIVE JoinSep(_)
\* " | ".join(parts)
JoinSep(parts) ==
    IF parts = <<>> THEN <<>>
    ELSE IF Len(parts) = 1 THEN parts[1]
    ELSE parts[1] \o <<SEP>> \o JoinSep(Tail(parts))

\* s[:n] without its bound
Take_All(s, n) == s
Take(s, n) == SubSeq(s, 1, IF Len(s) < n THEN Len(s) ELSE n)

\* ------------------------------------------------------------- the corpus
\* The record stored at position i of a metadata sequence that ingestion wrote.
SourceIdOf(i) == IF i % 2 = 1 THEN "constitucion_1993" ELSE "ley_x"
ArticleRecord(i) ==
    [id |-> i,
     source_id |-> SourceIdOf(i),
     hierarchy |-> [level_1 |-> IF i % 2 = 1 THEN "Titulo I" ELSE "",
                    level_2 |-> IF i > 1 THEN "Capitulo II" ELSE "",
                    level_3 |-> ""],
     payload |-> [label |-> <<"Articulo", i>>, text_content |-> <<"texto", i>>]]
\* The vector stored at position i of an index that ingestion wrote.
DocAngle(i) == 2 * i

Vectors(n) == [i \in 1..n |-> DocAngle(i)]
Records(n) == [i \in 1..n |-> ArticleRecord(i)]

\* An artifact on disk: absent, unreadable, or holding n entries.
IndexFiles ==
    {[state |-> "absent", data |-> <<>>], [state |-> "corrupt", data |-> <<>>]}
    \cup {[state |-> "ok", data |-> Vectors(n)] : n \in 0..MaxDocs}
MetadataFiles ==
    {[state |-> "absent", data |-> <<>>], [state |-> "corrupt", data |-> <<>>]}
    \cup {[state |-> "ok", data |-> Records(n)] : n \in 0..MaxDocs}

\* ---------------------------------------------------------- vector store
Abs(x) == IF x < 0 THEN -x ELSE x
\* Inner product of two normalized vectors (IndexFlatIP), scaled by 100.
InnerProduct(a, b) == 100 - 25 * Abs(a - b)

\* _initialize without the existence test of the metadata file: the index is
\* read before open() fails.
Initialize_NoMetadataCheck(st, idxFile, metaFile) ==
    IF st.initialized THEN [raised |-> FALSE, attempted |-> FALSE, st |-> st]
    ELSE IF idxFile.state \in {"absent", "corrupt"}
    THEN [raised |-> TRUE, attempted |-> TRUE, st |-> st]
    ELSE IF metaFile.state \in {"absent", "corrupt"}
    THEN [raised |-> TRUE, attempted |-> TRUE,
          st |-> [st EXCEPT !.index = Some(idxFile.data)]]
    ELSE [raised |-> FALSE, attempted |-> TRUE,
          st |-> [initialized |-> TRUE,
                  index |-> Some(idxFile.data),
                  documents |-> Some(metaFile.data)]]

\* _initialize that sets the flag before it reads the files.
Initialize_FlagFirst(st, idxFile, metaFile) ==
    IF st.initialized THEN [raised |-> FALSE, attempted |-> FALSE, st |-> st]
    ELSE IF idxFile.state = "absent" \/ metaFile.state = "absent"
    THEN [raised |-> TRUE, attempted |-> TRUE, st |-> st]
    ELSE IF idxFile.state = "corrupt"
    THEN [raised |-> TRUE, attempted |-> TRUE, st |-> [st EXCEPT !.initialized = TRUE]]
    ELSE IF metaFile.state = "corrupt"
    THEN [raised |-> TRUE, attempted |-> TRUE,
          st |-> [st EXCEPT !.initialized = TRUE, !.index = Some(idxFile.data)]]
    ELSE [raised |-> FALSE, attempted |-> TRUE,
          st |-> [initialized |-> TRUE,
                  index |-> Some(idxFile.data),
                  documents |-> Some(metaFile.data)]]

\* LegalVectorStore._initialize: st is [initialized, index, documents].
\* Returns the store after the call, whether the call raised, and whether it
\* went past the _initialized guard and looked for the artifacts (attempted).
Initialize(st, idxFile, metaFile) ==
    IF st.initialized THEN [raised |-> FALSE, attempted |-> FALSE, st |-> st]
    ELSE IF idxFile.state = "absent"
    THEN [raised |-> TRUE, attempted |-> TRUE, st |-> st]
    ELSE IF metaFile.state = "absent"
    THEN [raised |-> TRUE, attempted |-> TRUE, st |-> st]
    ELSE IF idxFile.state = "corrupt"
    THEN [raised |-> TRUE, attempted |-> TRUE, st |-> st]
    ELSE IF metaFile.state = "corrupt"
    THEN [raised |-> TRUE, attempted |-> TRUE,
          st |-> [st EXCEPT !.index = Some(idxFile.data)]]
    ELSE [raised |-> FALSE, attempted |-> TRUE,
          st |-> [initialized |-> TRUE,
                  index |-> Some(idxFile.data),
                  documents |-> Some(metaFile.data)]]

\* LegalVectorStore.ensure_loaded
EnsureLoaded(st, idxFile, metaFile) ==
    IF ~st.initialized THEN Initialize(st, idxFile, metaFile)
    ELSE [raised |-> FALSE, attempted |-> FALSE, st |-> st]

\* Position (0-based) of the best vector of `index` not in `taken`: highest
\* inner product, the lowest position on a tie.
BestOf(index, q, taken) ==
    CHOOSE i \in (0..(Len(index) - 1)) \ taken :
        \A j \in (0..(Len(index) - 1)) \ taken :
            \/ InnerProduct(q, index[i + 1]) > InnerProduct(q, index[j + 1])
            \/ /\ InnerProduct(q, index[i + 1]) = InnerProduct(q, index[j + 1])
               /\ i <= j

RECURSIVE IndexSearchFrom(_, _, _, _)
IndexSearchFrom(index, q, k, taken) ==
    IF k = 0 THEN <<>>
    ELSE IF Cardinality(taken) = Len(index)
         THEN <<[score |-> -1000, idx |-> MinusOne]>>
              \o IndexSearchFrom(index, q, k - 1, taken)
    ELSE LET i == BestOf(index, q, taken)
         IN <<[score |-> InnerProduct(q, index[i + 1]), idx |-> i]>>
            \o IndexSearchFrom(index, q, k - 1, taken \cup {i})

\* faiss index.search(query, k): k (score, idx) pairs by descending score,
\* padded with idx = -1 when the index holds fewer than k vectors.
IndexSearch(index, q, k) == IndexSearchFrom(index, q, k, {})

\* doc = self.documents[idx].copy(); doc['similarity_score'] = float(score)
WithScore(doc, score) == ("similarity_score" :> score) @@ doc

\* self.documents[idx] of a Python list: a negative idx counts from the end.
PyItem(documents, idx) ==
    IF idx < 0 THEN documents[Len(documents) + idx + 1] ELSE documents[idx + 1]
\* self.documents[idx] raises IndexError.
OutOfRange(documents, idx) == idx >= Len(documents) \/ idx < -Len(documents)

\* Lines 107-108 without the copy: the score is written into the shared record.
ScoredCopy_InPlace(documents, idx, score) ==
    [doc |-> WithScore(PyItem(documents, idx), score),
     documents |-> [documents EXCEPT ![idx + 1] = WithScore(PyItem(documents, idx), score)]]

\* Lines 107-108: the entry appended to results, and the metadata sequence after
\* the two statements (the score goes to the copy).
ScoredCopy(documents, idx, score) ==
    [doc |-> WithScore(PyItem(documents, idx), score), documents |-> documents]

\* The loop without its test for FAISS's padding.
MissingNeighbour_Never(idx) == FALSE

\* Line 99: idx == -1, FAISS's padding when the index holds fewer than k vectors.
MissingNeighbour(idx) == idx = MinusOne

\* The filter with `<=`: an entry scoring exactly the threshold is dropped.
BelowThreshold_Inclusive(score, score_threshold) ==
    score_threshold.some /\ score <= score_threshold.v

\* Line 103: score_threshold is not None and score < score_threshold
BelowThreshold(score, score_threshold) ==
    score_threshold.some /\ score < score_threshold.v

\* The loop putting each new result first.
AppendResult_Front(results, doc) == <<doc>> \o results

\* Line 109: results.append(doc)
AppendResult(results, doc) == Append(results, doc)

RECURSIVE CollectResults(_, _, _, _)
\* The loop of LegalVectorStore.search over the pairs `hits`; `acc` is the
\* results list so far.  documents[idx] raises IndexError past the end.
\* Returns the results and self.documents as the loop leaves it.
CollectResults(hits, documents, score_threshold, acc) ==
    IF hits = <<>> THEN [raised |-> FALSE, results |-> acc, documents |-> documents]
    ELSE LET h == Head(hits) IN
         IF MissingNeighbour(h.idx)
         THEN CollectResults(Tail(hits), documents, score_threshold, acc)
         ELSE IF BelowThreshold(h.score, score_threshold)
         THEN CollectResults(Tail(hits), documents, score_threshold, acc)
         ELSE IF OutOfRange(documents, h.idx)
         THEN [raised |-> TRUE, results |-> <<>>, documents |-> documents]
         ELSE LET c == ScoredCopy(documents, h.idx, h.score) IN
              CollectResults(Tail(hits), c.documents, score_threshold,
                             AppendResult(acc, c.doc))

\* LegalVectorStore.search: [raised, attempted, results, st]
Search(st, idxFile, metaFile, query_embedding, k, score_threshold) ==
    LET ld == EnsureLoaded(st, idxFile, metaFile) IN
    IF ld.raised
    THEN [raised |-> TRUE, attempted |-> ld.attempted, results |-> <<>>, st |-> ld.st]
    ELSE LET r == CollectResults(IndexSearch(ld.st.index.v, query_embedding, k),
                                 ld.st.documents.v, score_threshold, <<>>)
         IN [raised |-> r.raised, attempted |-> ld.attempted,
             results |-> r.results,
             st |-> [ld.st EXCEPT !.documents = Some(r.documents)]]

\* LegalVectorStore._format_source_name
FormatSourceName(source_id) ==
    IF source_id = "constitucion_1993"
    THEN "Constitución Política del Perú (1993)"
    ELSE "Ley X"

\* LegalVectorStore._format_hierarchy
FormatHierarchy(hierarchy) ==
    SelectSeq(<<hierarchy.level_1, hierarchy.level_2, hierarchy.level_3>>,
              LAMBDA h : h # "")

\* One numbered block of the context string.
ContextPart(i, doc) ==
    [n |-> i,
     source_name |-> FormatSourceName(doc.source_id),
     hierarchy |-> FormatHierarchy(doc.hierarchy),
     label |-> doc.payload.label,
     text |-> doc.payload.text_content,
     relevancia |-> doc.similarity_score]

\* The context string assembled from a non-empty result list.
FormatContext(results) == [i \in 1..Len(results) |-> ContextPart(i, results[i])]

\* LegalVectorStore.search_with_context: [raised, attempted, results, context, st]
SearchWithContext(st, idxFile, metaFile, query_embedding, k, score_threshold) ==
    LET s == Search(st, idxFile, metaFile, query_embedding, k, Some(score_threshold)) IN
    IF s.raised
    THEN [raised |-> TRUE, attempted |-> s.attempted, results |-> <<>>,
          context |-> <<>>, st |-> s.st]
    ELSE IF s.results = <<>>
    THEN [raised |-> FALSE, attempted |-> s.attempted, results |-> <<>>,
          context |-> NO_RESULTS_CONTEXT, st |-> s.st]
    ELSE [raised |-> FALSE, attempted |-> s.attempted, results |-> s.results,
          context |-> FormatContext(s.results), st |-> s.st]

\* ------------------------------------------------------------ LLM service
\* What the generative backend does with one call.  The body of a text reply
\* is either JSON text (json = TRUE, carrying the value it denotes) or text
\* that no JSON parser accepts; "none" is a reply whose text is None.
FailureReplies == {[kind |-> "error"], [kind |-> "timeout"]}
TextReply(kind, value) == [kind |-> "text", body |-> [form |-> kind, value |-> value]]

\* The user queries, the optimized variants and the concepts the backend may
\* produce.
UserQueries == {<<"q">>}
VariantTexts == {<<"q">>, <<"v1">>}
Conceptos5 == <<(<<"c1">>), (<<"c2">>), (<<"c3">>), (<<"c4">>), (<<"c5">>)>>
ConceptoLists == {<<>>, Conceptos5}

RECURSIVE SeqsUpTo(_, _)
\* The sequences over S of length at most n.
SeqsUpTo(S, n) ==
    IF n = 0 THEN {<<>>}
    ELSE LET shorter == SeqsUpTo(S, n - 1)
         IN shorter \cup {Append(s, x) : s \in {t \in shorter : Len(t) = n - 1}, x \in S}

\* The objects that satisfy the LegalOutput schema, within the bounds.
LegalOutputs ==
    {[tema_legal |-> "Tema", conceptos_clave |-> c,
      queries_optimizadas |-> qs, leyes_relevantes |-> <<"Ley">>] :
        c \in ConceptoLists, qs \in SeqsUpTo(VariantTexts, MaxVariants)}

RewriteReplies ==
    FailureReplies
    \cup {TextReply("none", <<>>), TextReply("empty", <<>>), TextReply("garbage", <<>>)}
    \cup {TextReply("json", o) : o \in LegalOutputs}

AnswerReplies ==
    FailureReplies \cup {TextReply("none", <<>>), TextReply("json", <<"respuesta">>)}

\* LLMService._get_service: service is "None" or "GeminiService"; ctorOk says
\* whether GeminiService() succeeds if it is called.
GetService(service, ctorOk) ==
    IF service = "None"
    THEN IF ctorOk THEN [raised |-> FALSE, service |-> "GeminiService"]
         ELSE [raised |-> TRUE, service |-> "None"]
    ELSE [raised |-> FALSE, service |-> service]

\* GeminiService.generate: return response.text or ""
GeminiGenerate(reply) ==
    IF reply.kind # "text" THEN [raised |-> TRUE, text |-> [form |-> "empty", value |-> <<>>]]
    ELSE IF reply.body.form = "none"
    THEN [raised |-> FALSE, text |-> [form |-> "empty", value |-> <<>>]]
    ELSE [raised |-> FALSE, text |-> reply.body]

\* json.loads
JsonLoads(text) ==
    IF text.form = "json" THEN [raised |-> FALSE, value |-> text.value]
    ELSE [raised |-> TRUE, value |-> <<>>]

\* A fallback that carries no query.
RewriteFallback_NoQuery(user_query) ==
    [tema_legal |-> NO_IDENTIFICADO,
     conceptos_clave |-> <<>>,
     queries_optimizadas |-> <<>>,
     leyes_relevantes |-> <<>>]

\* The except branch of rewrite_query.
RewriteFallback(user_query) ==
    [tema_legal |-> NO_IDENTIFICADO,
     conceptos_clave |-> <<>>,
     queries_optimizadas |-> <<user_query>>,
     leyes_relevantes |-> <<>>]

\* LLMService.rewrite_query: [raised, result, service]
RewriteQuery(user_query, service, ctorOk, reply) ==
    LET g == GetService(service, ctorOk) IN
    IF g.raised THEN [raised |-> TRUE, result |-> None, service |-> g.service]
    ELSE LET r == GeminiGenerate(reply) IN
         IF r.raised
         THEN [raised |-> FALSE, result |-> Some(RewriteFallback(user_query)),
               service |-> g.service]
         ELSE LET p == JsonLoads(r.text) IN
              IF p.raised
              THEN [raised |-> FALSE, result |-> Some(RewriteFallback(user_query)),
                    service |-> g.service]
              ELSE [raised |-> FALSE, result |-> Some(p.value), service |-> g.service]

\* LLMService.build_enhanced_query
BuildEnhancedQuery(rewrite_result, original_query) ==
    LET queries == rewrite_result.queries_optimizadas
        conceptos == rewrite_result.conceptos_clave
        parts1 == <<original_query>>
        parts2 == IF conceptos # <<>>
                  THEN Append(parts1, Flatten(Take(conceptos, MaxConceptos)))
                  ELSE parts1
        parts3 == IF queries # <<>> /\ queries[1] # original_query
                  THEN Append(parts2, queries[1])
                  ELSE parts2
    IN JoinSep(parts3)

\* LLMService._build_prompt
BuildPrompt(query, context) == [contexto |-> context, pregunta |-> query]

\* LLMService.generate_response: [raised, text, prompt, called, service]
GenerateResponse(query, context, service, ctorOk, reply) ==
    LET prompt == BuildPrompt(query, context)
        g == GetService(service, ctorOk)
    IN IF g.raised
       THEN [raised |-> TRUE, text |-> <<>>, prompt |-> prompt, called |-> FALSE,
             service |-> g.service]
       ELSE LET r == GeminiGenerate(reply) IN
            [raised |-> r.raised, text |-> r.text.value, prompt |-> prompt,
             called |-> TRUE, service |-> g.service]

\* ------------------------------------------------------------- RAG service
VARIABLES
    indexFile,            \* legal_index.faiss on disk
    metadataFile,         \* legal_index_metadata.pkl on disk
    vector_store,         \* the singleton: [initialized, index, documents]
    llm_service,          \* LLMService._service: "None" or "GeminiService"
    pc,                   \* position of RAGService.query
    user_query, top_k, score_threshold, use_query_rewriting,   \* its arguments
    k, threshold, rewrite_info, search_query, sources, context, alt, \* its locals
    response,             \* the RAGResponse it returned, or None
    rewrite_outcome,      \* how rewrite_query ended, and on what backend reply
    embeds,               \* the texts handed to embed_query, in call order
    searches,             \* the calls of search_with_context, in call order
    generations,          \* the calls of the generative backend made for the answer
    failed_at,            \* the call whose exception left query, or "none"
    last,                 \* the outcome of the last retrieve_only / health_check
    load_attempts         \* times _initialize went looking for the artifacts

VARIABLES
    processed,            \* the documents load_processed_files returns to the indexer
    statsFile,            \* legal_index_stats.json on disk
    call,                 \* the last direct call of the vector store and its outcome
    thread_pc,            \* position of each thread inside _initialize
    index_reads,          \* times faiss.read_index ran
    metadata_reads,       \* times pickle.load ran
    raw_text,             \* the normalized text of the document a parser was built on
    parsed                \* what each parser's parse() returned for raw_text

VARIABLES
    embedder_instance,    \* LegalEmbedder._instance: None, or the object it holds
    model_loads,          \* times SentenceTransformer(...) was called
    constructions,        \* the outcomes of the LegalEmbedder() calls, in call order
    embed_calls,          \* the outcomes of the embed_query calls, in call order
    enriched,             \* what the two enrichment routines and embed_query hand
                          \* to the encoder for one record and one query, or None
    audio_clients,        \* audio service: which lazily created clients exist
    audio_request,        \* audio service: the request being answered, or None
    audio_calls,          \* audio service: the external calls made for it, in order
    audio_response        \* audio service: the HTTP response to it, or None

diskVars == <<indexFile, metadataFile>>
embedderVars == <<embedder_instance, model_loads, constructions, embed_calls>>
\* State of the components that are modelled by specifications of their own.
audioVars == <<audio_clients, audio_request, audio_calls, audio_response>>
sideVars == <<embedderVars, enriched, audioVars>>
\* State of the indexer, of the threads, of the parsers and of those
\* components: no serving-time operation of the RAG service touches it.
offlineVars == <<processed, statsFile, call, thread_pc, index_reads, metadata_reads,
                 raw_text, parsed, sideVars>>
vars == <<offlineVars, indexFile, metadataFile, vector_store, llm_service, pc, user_query, top_k,
          score_threshold, use_query_rewriting, k, threshold, rewrite_info,
          search_query, sources, context, alt, response, rewrite_outcome, embeds,
          searches, generations, failed_at, last, load_attempts>>

TopKArgs == {None, Some(1)}
ThresholdArgs == {None, Some(0), Some(50)}
QueryAngles == {1 + 3 * i : i \in 0..MaxAngleStep}
\* embed_query: the encoder raises, or returns some unit vector.
EmbedOutcomes ==
    {[raised |-> TRUE, v |-> 0]} \cup {[raised |-> FALSE, v |-> a] : a \in QueryAngles}

NoCall == [op |-> "none", raised |-> FALSE, attempted |-> FALSE, value |-> <<>>]
NoRewrite == [ended |-> "none", reply |-> "none"]
NoStoreCall == [op |-> "none"]
NotParsed == [parser |-> "none", articles |-> <<>>]

\* The class attribute _instance = None of line 14: nothing was constructed.
EmbedderIdle ==
    /\ embedder_instance = None
    /\ model_loads = 0
    /\ constructions = <<>>
    /\ embed_calls = <<>>

\* The audio service right after import: no client was created (lazy init),
\* no request is being answered.
AudioIdle ==
    /\ audio_clients = [elevenlabs |-> FALSE, google_tts |-> FALSE, google_stt |-> FALSE]
    /\ audio_request = None
    /\ audio_calls = <<>>
    /\ audio_response = None

SideIdle == EmbedderIdle /\ enriched = None /\ AudioIdle

\* Nothing was indexed, no thread is inside _initialize, nothing was parsed.
OfflineIdle ==
    /\ processed = <<>>
    /\ statsFile = None
    /\ call = NoStoreCall
    /\ thread_pc = [t \in 1..MaxThreads |-> "idle"]
    /\ index_reads = 0
    /\ metadata_reads = 0
    /\ raw_text = <<>>
    /\ parsed = NotParsed
    /\ SideIdle

\* The per-call state of query before a call and after its outcome was consumed.
QueryIdle ==
    /\ pc = "idle"
    /\ user_query = <<>> /\ top_k = None /\ score_threshold = None
    /\ use_query_rewriting = TRUE
    /\ k = 0 /\ threshold = 0 /\ rewrite_info = None /\ search_query = <<>>
    /\ sources = <<>> /\ context = <<>> /\ alt = 0
    /\ response = None /\ rewrite_outcome = NoRewrite
    /\ embeds = <<>> /\ searches = <<>> /\ generations = <<>> /\ failed_at = "none"

\* Module import: vector_store = LegalVectorStore(), llm_service = LLMService(),
\* rag_service = RAGService(); the artifacts on disk are whatever was deployed.
Init ==
    /\ indexFile \in IndexFiles
    /\ metadataFile \in MetadataFiles
    /\ vector_store = [initialized |-> FALSE, index |-> None, documents |-> None]
    /\ llm_service = "None"
    /\ QueryIdle
    /\ last = NoCall
    /\ load_attempts = 0
    /\ OfflineIdle

\* A call may start while the store is loaded or its failed loads are still
\* counted.
CanCall == vector_store.initialized \/ load_attempts < MaxLoadAttempts

CountLoad(n, attempted) == IF attempted THEN n + 1 ELSE n

\* The rewriter runs whatever the flag says.
RunsRewrite_Always(flag) == TRUE

\* Line 82: if use_query_rewriting
RunsRewrite(flag) == flag

\* RAGService.query, lines 75-82: the call and its first assignments, for a
\* caller whose top_k and score_threshold arguments come from the given sets.
StartQueryFrom(topKs, thresholds) ==
    /\ pc = "idle"
    /\ CanCall
    /\ \E uq \in UserQueries, tk \in topKs, st \in thresholds, rw \in BOOLEAN :
        /\ user_query' = uq
        /\ top_k' = tk
        /\ score_threshold' = st
        /\ use_query_rewriting' = rw
        /\ k' = PyOr(tk, rag_top_k)
        /\ threshold' = PyOr(st, rag_score_threshold)
        /\ rewrite_info' = None
        /\ search_query' = uq
        /\ pc' = IF RunsRewrite(rw) THEN "rewrite" ELSE "primary"
    /\ UNCHANGED <<sources, context, alt, response, rewrite_outcome, embeds,
                   searches, generations, failed_at>>
    /\ UNCHANGED <<offlineVars, diskVars, vector_store, llm_service, last, load_attempts>>

\* A call of query through POST /api/v1/query (routes.query_legal).
StartQuery == StartQueryFrom(TopKArgs, ThresholdArgs)

\* The form of the backend's reply, for rewrite_outcome.
ReplyForm(reply) == IF reply.kind = "text" THEN reply.body.form ELSE reply.kind

\* RAGService.query, lines 82-88: the rewrite step and its except branch.
RewriteStep ==
    /\ pc = "rewrite"
    /\ \E ctorOk \in BOOLEAN, reply \in RewriteReplies :
        LET r == RewriteQuery(user_query, llm_service, ctorOk, reply) IN
        /\ llm_service' = r.service
        /\ rewrite_outcome' = IF r.raised THEN [ended |-> "raised", reply |-> "none"]
                              ELSE [ended |-> "returned", reply |-> ReplyForm(reply)]
        /\ rewrite_info' = IF r.raised THEN None ELSE r.result
        /\ search_query' = IF r.raised THEN user_query
                           ELSE BuildEnhancedQuery(r.result.v, user_query)
    /\ pc' = "primary"
    /\ UNCHANGED <<user_query, top_k, score_threshold, use_query_rewriting, k,
                   threshold, sources, context, alt, response, embeds, searches,
                   generations, failed_at>>
    /\ UNCHANGED <<offlineVars, diskVars, vector_store, last, load_attempts>>

\* The entry of `searches` for one call of search_with_context.
SearchEntry(phase, text, kk, th, s) ==
    [phase |-> phase, text |-> text, k |-> kk, threshold |-> th,
     raised |-> s.raised, attempted |-> s.attempted,
     results |-> s.results, context |-> s.context]

\* The trigger without its `not sources` test.
CascadeTriggered_IgnoresSources(srcs, info) ==
    info.some /\ Len(info.v.queries_optimizadas) > 1

\* Line 101: not sources and rewrite_info and
\* len(rewrite_info.get("queries_optimizadas", [])) > 1
CascadeTriggered(srcs, info) ==
    srcs = <<>> /\ info.some /\ Len(info.v.queries_optimizadas) > 1

\* RAGService.query, lines 91-101: embed the search query, search, and decide
\* whether the cascade runs.
PrimarySearch ==
    /\ pc = "primary"
    /\ embeds' = Append(embeds, search_query)
    /\ \E e \in EmbedOutcomes :
        IF e.raised
        THEN /\ pc' = "raised"
             /\ failed_at' = "primary_embed"
             /\ UNCHANGED <<sources, context, alt, searches, vector_store,
                            load_attempts>>
        ELSE LET s == SearchWithContext(vector_store, indexFile, metadataFile,
                                        e.v, k, threshold) IN
             /\ vector_store' = s.st
             /\ load_attempts' = CountLoad(load_attempts, s.attempted)
             /\ searches' = Append(searches,
                                   SearchEntry("primary", search_query, k, threshold, s))
             /\ IF s.raised
                THEN /\ pc' = "raised"
                     /\ failed_at' = "primary_search"
                     /\ UNCHANGED <<sources, context, alt>>
                ELSE /\ sources' = s.results
                     /\ context' = s.context
                     /\ failed_at' = failed_at
                     /\ IF CascadeTriggered(s.results, rewrite_info)
                        THEN pc' = "cascade" /\ alt' = 2
                        ELSE pc' = "answer" /\ alt' = alt
    /\ UNCHANGED <<user_query, top_k, score_threshold, use_query_rewriting, k,
                   threshold, rewrite_info, search_query, response, rewrite_outcome,
                   generations>>
    /\ UNCHANGED <<offlineVars, diskVars, llm_service, last>>

\* threshold * 0.8
Relaxed(th) == (th * CascadeNum) \div CascadeDen

\* The loop extending the pair it holds instead of replacing it.
CascadeCommit_Merges(prev, s) ==
    [sources |-> prev.sources \o s.results, context |-> prev.context \o s.context]

\* Lines 104-108: the assignment sources, context = search_with_context(...)
\* inside the loop; prev is the pair held before it.
CascadeCommit(prev, s) == [sources |-> s.results, context |-> s.context]

\* The loop without its break.
CascadeDone_NoBreak(srcs, a, n) == a >= n

\* Lines 102, 109-110: the loop over queries_optimizadas[1:] ends after the
\* variant at position a of n when it found something or was the last one.
CascadeDone(srcs, a, n) == srcs # <<>> \/ a >= n

\* alt_query of the iteration at position a (1-based; a = 2 is [1:][0]).
AltQuery(queries, a) == queries[a]

\* RAGService.query, lines 102-110: one iteration of the cascade loop; alt is
\* the position of alt_query in queries_optimizadas.
CascadeSearch ==
    /\ pc = "cascade"
    /\ LET alt_query == AltQuery(rewrite_info.v.queries_optimizadas, alt) IN
       /\ embeds' = Append(embeds, alt_query)
       /\ \E e \in EmbedOutcomes :
           IF e.raised
           THEN /\ pc' = "raised"
                /\ failed_at' = "cascade_embed"
                /\ UNCHANGED <<sources, context, alt, searches, vector_store,
                               load_attempts>>
           ELSE LET s == SearchWithContext(vector_store, indexFile, metadataFile,
                                           e.v, k, Relaxed(threshold))
                    c == CascadeCommit([sources |-> sources, context |-> context], s)
                IN
                /\ vector_store' = s.st
                /\ load_attempts' = CountLoad(load_attempts, s.attempted)
                /\ searches' = Append(searches,
                                      SearchEntry("cascade", alt_query, k,
                                                  Relaxed(threshold), s))
                /\ IF s.raised
                   THEN /\ pc' = "raised"
                        /\ failed_at' = "cascade_search"
                        /\ UNCHANGED <<sources, context, alt>>
                   ELSE /\ sources' = c.sources
                        /\ context' = c.context
                        /\ failed_at' = failed_at
                        /\ IF CascadeDone(c.sources, alt,
                                          Len(rewrite_info.v.queries_optimizadas))
                           THEN pc' = "answer" /\ alt' = alt
                           ELSE pc' = "cascade" /\ alt' = alt + 1
    /\ UNCHANGED <<user_query, top_k, score_threshold, use_query_rewriting, k,
                   threshold, rewrite_info, search_query, response, rewrite_outcome,
                   generations>>
    /\ UNCHANGED <<offlineVars, diskVars, llm_service, last>>

\* One entry of RAGService._format_sources.
FormatSource(source) ==
    [id |-> source.id,
     source |-> source.source_id,
     label |-> source.payload.label,
     text |-> IF Len(source.payload.text_content) > TextLimit
              THEN Append(Take(source.payload.text_content, TextLimit), "...")
              ELSE source.payload.text_content,
     hierarchy |-> [title |-> source.hierarchy.level_1,
                    chapter |-> source.hierarchy.level_2,
                    section |-> source.hierarchy.level_3],
     similarity_score |-> source.similarity_score]

\* _format_sources that keeps the best source only.
FormatSources_TopOnly(srcs) ==
    IF srcs = <<>> THEN <<>> ELSE <<FormatSource(srcs[1])>>

\* RAGService._format_sources
FormatSources(srcs) == [i \in 1..Len(srcs) |-> FormatSource(srcs[i])]

\* The RAGResponse of lines 128-134.
RAGResponse(ans, srcs, query, info) ==
    [answer |-> ans,
     sources |-> FormatSources(srcs),
     query |-> query,
     total_sources_found |-> Len(srcs),
     rewrite_info |-> info]

\* Generation asked the enhanced query.
GenerationQuery_Enhanced(original, enhanced) == enhanced

\* The question that query hands to generate_response (line 120) and the
\* query field of its RAGResponse (line 131), given the original and the
\* enhanced query.
GenerationQuery(original, enhanced) == original
ResponseQuery(original, enhanced) == original

\* Generation called whatever the sources.
SkipsGeneration_Never(srcs) == FALSE

\* Line 113: the branch that skips generation.
SkipsGeneration(srcs) == srcs = <<>>

\* The entry of `generations` for one call of the generative backend made by
\* generate_response: the prompt and how the call ended.
GenerationEntry(g) ==
    [contexto |-> g.prompt.contexto, pregunta |-> g.prompt.pregunta,
     raised |-> g.raised]

\* An exception of generate_response caught and turned into an answer.
GenerationRaises_Masked(g) == FALSE

\* Lines 119-123: the await of generate_response is in no try block, so its
\* exception leaves query.
GenerationRaises(g) == g.raised

\* RAGService.query, lines 113-134: the fixed answer or the generation call,
\* then the response.
AnswerStep ==
    /\ pc = "answer"
    /\ IF SkipsGeneration(sources)
       THEN /\ response' = Some(RAGResponse(NO_RESULTS_ANSWER, sources,
                                            ResponseQuery(user_query, search_query),
                                            rewrite_info))
            /\ pc' = "returned"
            /\ UNCHANGED <<generations, failed_at, llm_service>>
       ELSE \E ctorOk \in BOOLEAN, reply \in AnswerReplies :
            LET g == GenerateResponse(GenerationQuery(user_query, search_query),
                                      context, llm_service, ctorOk, reply) IN
            /\ llm_service' = g.service
            /\ generations' = IF g.called THEN Append(generations, GenerationEntry(g))
                              ELSE generations
            /\ IF GenerationRaises(g)
               THEN /\ pc' = "raised"
                    /\ failed_at' = "generate"
                    /\ response' = response
               ELSE /\ pc' = "returned"
                    /\ failed_at' = failed_at
                    /\ response' = Some(RAGResponse(g.text, sources,
                                                    ResponseQuery(user_query, search_query),
                                                    rewrite_info))
    /\ UNCHANGED <<user_query, top_k, score_threshold, use_query_rewriting, k,
                   threshold, rewrite_info, search_query, sources, context, alt,
                   rewrite_outcome, embeds, searches>>
    /\ UNCHANGED <<offlineVars, diskVars, vector_store, last, load_attempts>>

\* The caller (routes.query_legal, retrieve_documents, health_check) has
\* consumed the response or the exception; the service is ready for the next
\* call.
Finish ==
    /\ pc \in {"returned", "raised", "called"}
    /\ pc' = "idle"
    /\ user_query' = <<>> /\ top_k' = None /\ score_threshold' = None
    /\ use_query_rewriting' = TRUE
    /\ k' = 0 /\ threshold' = 0 /\ rewrite_info' = None /\ search_query' = <<>>
    /\ sources' = <<>> /\ context' = <<>> /\ alt' = 0
    /\ response' = None /\ rewrite_outcome' = NoRewrite
    /\ embeds' = <<>> /\ searches' = <<>> /\ generations' = <<>>
    /\ failed_at' = "none"
    /\ last' = NoCall
    /\ UNCHANGED <<offlineVars, diskVars, vector_store, llm_service, load_attempts>>

\* RAGService.retrieve_only
RetrieveOnly ==
    /\ pc = "idle"
    /\ CanCall
    /\ \E tk \in TopKArgs, st \in ThresholdArgs, e \in EmbedOutcomes :
        IF e.raised
        THEN /\ last' = [op |-> "embed_query", raised |-> TRUE,
                         attempted |-> FALSE, value |-> <<>>]
             /\ UNCHANGED <<vector_store, load_attempts>>
        ELSE LET s == SearchWithContext(vector_store, indexFile, metadataFile, e.v,
                                        PyOr(tk, rag_top_k),
                                        PyOr(st, rag_score_threshold)) IN
             /\ vector_store' = s.st
             /\ load_attempts' = CountLoad(load_attempts, s.attempted)
             /\ last' = [op |-> "search_with_context", raised |-> s.raised,
                         attempted |-> s.attempted,
                         value |-> <<s.results, s.context>>]
    /\ pc' = "called"
    /\ UNCHANGED <<user_query, top_k, score_threshold, use_query_rewriting, k,
                   threshold, rewrite_info, search_query, sources, context, alt,
                   response, rewrite_outcome, embeds, searches, generations,
                   failed_at>>
    /\ UNCHANGED <<offlineVars, diskVars, llm_service>>

\* LegalVectorStore.total_documents: [raised, attempted, value, st]
TotalDocuments(st, idxFile, metaFile) ==
    LET ld == EnsureLoaded(st, idxFile, metaFile) IN
    IF ld.raised
    THEN [raised |-> TRUE, attempted |-> ld.attempted, value |-> 0, st |-> ld.st]
    ELSE [raised |-> FALSE, attempted |-> ld.attempted,
          value |-> Len(ld.st.index.v), st |-> ld.st]

\* RAGService.health_check
HealthCheck ==
    /\ pc = "idle"
    /\ CanCall
    /\ LET t == TotalDocuments(vector_store, indexFile, metadataFile) IN
       /\ vector_store' = t.st
       /\ load_attempts' = CountLoad(load_attempts, t.attempted)
       /\ last' = [op |-> "total_documents", raised |-> t.raised,
                   attempted |-> t.attempted, value |-> <<t.value>>]
    /\ pc' = "called"
    /\ UNCHANGED <<user_query, top_k, score_threshold, use_query_rewriting, k,
                   threshold, rewrite_info, search_query, sources, context, alt,
                   response, rewrite_outcome, embeds, searches, generations,
                   failed_at>>
    /\ UNCHANGED <<offlineVars, diskVars, llm_service>>

Next ==
    \/ StartQuery
    \/ RewriteStep
    \/ PrimarySearch
    \/ CascadeSearch
    \/ AnswerStep
    \/ Finish
    \/ RetrieveOnly
    \/ HealthCheck

Spec == Init /\ [][Next]_vars

\* ------------------------------------------------------------- properties
PrimaryEmpty ==
    searches # <<>> /\ ~searches[1].raised /\ searches[1].results = <<>>
ManyQueries ==
    rewrite_info.some /\ Len(rewrite_info.v.queries_optimizadas) > 1
CascadeRan == Len(embeds) > 1 \/ Len(searches) > 1 \/ pc = "cascade"

\* C1: a cascade search happens only if the primary search returned zero
\* results and the rewrite result has more than one queries_optimizadas entry
\* (so never with rewriting disabled or the rewrite absent); in every other
\* case at most one search is made, and a query that returns made exactly
\* one, the primary one, whose result is the committed result.
C1_CascadeOnlyOnEmptyPrimaryWithAlternatives ==
    /\ CascadeRan => PrimaryEmpty /\ ManyQueries /\ use_query_rewriting
    /\ ~(PrimaryEmpty /\ ManyQueries) => Len(searches) <= 1 /\ Len(embeds) <= 1
    /\ (pc = "returned" /\ ~(PrimaryEmpty /\ ManyQueries)) =>
        /\ Len(searches) = 1
        /\ searches[1].phase = "primary"
        /\ sources = searches[1].results
        /\ response.v.sources = FormatSources(searches[1].results)
        /\ response.v.total_sources_found = Len(searches[1].results)

\* A query with three optimized variants whose primary search found
\* something: it returned after that one search.
C1_Witness ==
    /\ pc = "returned"
    /\ rewrite_info.some /\ Len(rewrite_info.v.queries_optimizadas) = 3
    /\ Len(searches) = 1 /\ sources # <<>>

\* C2: when the cascade runs, the variants from the second entry of
\* queries_optimizadas on are embedded and searched one at a time, in list
\* order, and every search before the last one made returned nothing: the
\* cascade stops at the first variant with a result, or at the end of the list.
C2_CascadeInOrderStopsAtFirstHit ==
    CascadeRan =>
        LET qs == rewrite_info.v.queries_optimizadas
            n == Len(searches)
            m == Len(embeds)
        IN /\ m <= Len(qs) /\ n <= m /\ m <= n + 1
           /\ (m = n + 1) => (pc = "raised" /\ failed_at = "cascade_embed")
           /\ \A i \in 2..m : embeds[i] = qs[i]
           /\ \A i \in 2..n : searches[i].phase = "cascade" /\ searches[i].text = qs[i]
           /\ \A i \in 1..(n - 1) : ~searches[i].raised /\ searches[i].results = <<>>
           /\ (pc \in {"answer", "returned"} \/ failed_at = "generate") =>
                (searches[n].results # <<>> \/ n = Len(qs))

\* The second of three variants returned a result and the query went on to
\* its answer without touching the third.
C2_Witness ==
    /\ pc = "returned"
    /\ rewrite_info.some /\ Len(rewrite_info.v.queries_optimizadas) = 3
    /\ Len(searches) = 2 /\ Len(embeds) = 2
    /\ searches[2].results # <<>>

\* C3: when the primary search returned nothing and a later variant returned
\* at least one result, the committed sources are exactly that variant's
\* results and the committed context is the context assembled from them; so
\* are the context handed to generation, and the sources and
\* total_sources_found of the response.
C3_CascadeCommitsTheHitOnly ==
    (Len(searches) >= 2 /\ ~searches[Len(searches)].raised
        /\ searches[Len(searches)].results # <<>>) =>
        LET hit == searches[Len(searches)].results IN
        /\ sources = hit
        /\ context = FormatContext(hit)
        /\ \A i \in 1..Len(generations) : generations[i].contexto = FormatContext(hit)
        /\ pc = "returned" =>
            /\ response.v.sources = FormatSources(hit)
            /\ response.v.total_sources_found = Len(hit)

\* The third variant is the one that hit, and the answer was generated.
C3_Witness ==
    /\ pc = "returned"
    /\ Len(searches) = 3
    /\ searches[3].results # <<>>
    /\ generations # <<>>

\* C4: the question of every generation prompt, and the query field of every
\* response, is the original user query.
C4_GenerationUsesOriginalQuery ==
    /\ \A i \in 1..Len(generations) : generations[i].pregunta = user_query
    /\ pc = "returned" => response.v.query = user_query

\* An answer was generated after a cascade, for a search query that differs
\* from the user's.
C4_Witness ==
    /\ pc = "returned"
    /\ generations # <<>>
    /\ search_query # user_query
    /\ Len(searches) > 1

\* C5: rewrite_query never raises, whatever the generative backend does,
\* the construction of the backend service included.
C5_RewriteQueryNeverRaises == rewrite_outcome.ended # "raised"

C7_RetrievalFailuresAreAbsorbed ==
    pc = "raised" => failed_at \notin {"rewrite", "cascade_embed", "cascade_search"}

\* C8: an empty retrieval is not an error.  A search that finds nothing
\* returns the empty list with the sentinel context; a query whose committed
\* sources are empty returns the fixed answer with no sources, without calling
\* generation; and whenever query raises, a call it made raised (an embedding,
\* a search, or a generation, which is only made with sources).
C8_EmptyRetrievalIsNotAnError ==
    /\ \A i \in 1..Len(searches) :
        (~searches[i].raised /\ searches[i].results = <<>>) =>
            searches[i].context = <<"No se encontraron artículos relevantes.">>
    /\ (last.op = "search_with_context" /\ ~last.raised /\ last.value[1] = <<>>) =>
        last.value[2] = <<"No se encontraron artículos relevantes.">>
    /\ (pc = "returned" /\ sources = <<>>) =>
        /\ response.v.answer = NO_RESULTS_ANSWER
        /\ response.v.sources = <<>>
        /\ response.v.total_sources_found = 0
        /\ generations = <<>>
    /\ pc = "raised" =>
        \/ failed_at \in {"primary_embed", "cascade_embed"}
            /\ Len(embeds) = Len(searches) + 1
        \/ failed_at \in {"primary_search", "cascade_search"}
            /\ searches[Len(searches)].raised
        \/ failed_at = "generate" /\ sources # <<>>

\* Nothing cleared the threshold in the primary search nor in two cascade
\* searches, and the query returned.
C8_Witness ==
    /\ pc = "returned"
    /\ Len(searches) = 3
    /\ sources = <<>>
    /\ vector_store.index.v # <<>>

\* C9: an index whose vector count differs from the number of metadata
\* records is never loaded.
C9_MismatchedCountsAreNeverLoaded ==
    vector_store.initialized =>
        Len(vector_store.index.v) = Len(vector_store.documents.v)

MissingArtifact == indexFile.state = "absent" \/ metadataFile.state = "absent"

\* C10: with the index file or the metadata file absent, nothing is ever
\* loaded and the store stays not initialized; every search_with_context and
\* total_documents call raises, after looking for the artifacts again; no
\* query gets past its primary search.
C10_MissingArtifactIsFatal ==
    MissingArtifact =>
        /\ ~vector_store.initialized
        /\ vector_store.index = None /\ vector_store.documents = None
        /\ \A i \in 1..Len(searches) : searches[i].raised /\ searches[i].attempted
        /\ last.op \in {"search_with_context", "total_documents"} =>
            last.raised /\ last.attempted
        /\ pc \notin {"cascade", "answer", "returned"}
        /\ response = None

\* A second call on a store whose metadata file is absent: it looked for the
\* artifacts again and raised.
C10_Witness ==
    /\ metadataFile.state = "absent" /\ indexFile.state = "ok"
    /\ load_attempts = 2
    /\ last.op = "total_documents" /\ last.raised /\ last.attempted

\* ------------------------------------------------------------------ indexer
\* A processed article as load_processed_files reads it back from JSON: the
\* LegalArticle fields, source_type included.
SourceTypeOf(i) ==
    IF i % 3 = 0 THEN "" ELSE IF i % 2 = 1 THEN "constitucion" ELSE "ley"
ProcessedArticle(i) == ("source_type" :> SourceTypeOf(i)) @@ ArticleRecord(i)

\* What load_processed_files may return: any articles, in the order of the
\* directory listing, repeated when two files hold the same article.
ProcessedLists == SeqsUpTo({ProcessedArticle(i) : i \in 1..(MaxDocs + 1)}, MaxDocs)

\* str.capitalize() of a source type
Capitalize(s) ==
    CASE s = "constitucion" -> "Constitucion"
      [] s = "ley" -> "Ley"
      [] OTHER -> s

\* A JSON null in a heading field (Optional[str], models.py lines 28-30): a
\* marker among the strings.
Null == "null"

\* One entry of context_parts that is a heading or a source type: kept when
\* `p and p.strip()`, that is when it is not None, not empty and not blank.
StrPart(p) == IF p = Null \/ p = "" \/ p = " " THEN <<>> ELSE <<p>>

\* One entry of context_parts that is a label or a content, under the same
\* test.
TextPart(p) == IF p = <<>> \/ p = <<" ">> THEN <<>> ELSE p

\* LegalIndexer.prepare_text_for_embedding: the parts that are neither empty
\* nor blank, in the order source type, level_1, level_2, label, text.
PrepareTextForEmbedding(doc) ==
    SelectSeq(<<StrPart(Capitalize(doc.source_type)),
                StrPart(doc.hierarchy.level_1),
                StrPart(doc.hierarchy.level_2),
                TextPart(doc.payload.label),
                TextPart(doc.payload.text_content)>>,
              LAMBDA p : p # <<>>)

\* The weight one part of a text has in the encoder: a heading counts once, a
\* label or a content by the number it carries.
PartCode(p) == IF Len(p) = 2 THEN p[2] ELSE 1

RECURSIVE Encode(_)
\* model.encode(text, normalize_embeddings=True): a fixed function of the text.
Encode(text) ==
    IF text = <<>> THEN 0 ELSE PartCode(Head(text)) + Encode(Tail(text))

\* generate_embeddings that encodes the bare content of each document.
GenerateEmbeddings_Unenriched(documents) ==
    [i \in 1..Len(documents) |-> Encode(<<documents[i].payload.text_content>>)]

\* LegalIndexer.generate_embeddings: one vector per document, in document order,
\* of the enriched text.
GenerateEmbeddings(documents) ==
    [i \in 1..Len(documents) |-> Encode(PrepareTextForEmbedding(documents[i]))]

\* LegalIndexer.build_faiss_index: a new IndexFlatIP, then index.add(embeddings).
BuildFaissIndex(embeddings) == <<>> \o embeddings

\* The set of source ids of the documents (stats "sources").
SourcesOf(documents) == {documents[i].source_id : i \in 1..Len(documents)}

\* LegalIndexer.save_index: the three files it writes.
SaveIndex(index, documents) ==
    [indexFile |-> [state |-> "ok", data |-> index],
     metadataFile |-> [state |-> "ok", data |-> documents],
     statsFile |-> Some([total_documents |-> Len(documents),
                         sources |-> SourcesOf(documents),
                         index_type |-> "IndexFlatIP"])]

\* LegalIndexer.run on the documents it loaded; `disk` is the three files before.
Run(documents, disk) ==
    IF documents = <<>> THEN disk
    ELSE SaveIndex(BuildFaissIndex(GenerateEmbeddings(documents)), documents)

AbsentFile == [state |-> "absent", data |-> <<>>]
SearchKs == 1..(MaxDocs + 1)
SearchThresholds == {None, Some(0), Some(50), Some(75)}

\* The output directory is empty, the processed directory holds some articles,
\* and the serving process has imported its singletons.
IndexInit ==
    /\ processed \in ProcessedLists
    /\ indexFile = AbsentFile /\ metadataFile = AbsentFile /\ statsFile = None
    /\ vector_store = [initialized |-> FALSE, index |-> None, documents |-> None]
    /\ call = NoStoreCall
    /\ thread_pc = [t \in 1..MaxThreads |-> "idle"]
    /\ index_reads = 0 /\ metadata_reads = 0
    /\ raw_text = <<>> /\ parsed = NotParsed
    /\ llm_service = "None" /\ QueryIdle /\ last = NoCall /\ load_attempts = 0
    /\ SideIdle

queryVars == <<pc, user_query, top_k, score_threshold, use_query_rewriting, k,
               threshold, rewrite_info, search_query, sources, context, alt,
               response, rewrite_outcome, embeds, searches, generations, failed_at>>

\* python -m src.ingestion.indexer: LegalIndexer.run
IndexerRun ==
    /\ LET out == Run(processed, [indexFile |-> indexFile,
                                  metadataFile |-> metadataFile,
                                  statsFile |-> statsFile]) IN
       /\ indexFile' = out.indexFile
       /\ metadataFile' = out.metadataFile
       /\ statsFile' = out.statsFile
    /\ UNCHANGED <<processed, call, vector_store, thread_pc, index_reads,
                   metadata_reads, raw_text, parsed>>
    /\ UNCHANGED <<queryVars, llm_service, last, load_attempts, sideVars>>

\* A caller of vector_store.search(query_embedding, k, score_threshold).
StoreSearch ==
    /\ call = NoStoreCall
    /\ \E q \in QueryAngles, kk \in SearchKs, th \in SearchThresholds :
        LET s == Search(vector_store, indexFile, metadataFile, q, kk, th) IN
        /\ vector_store' = s.st
        /\ call' = [op |-> "search", q |-> q, k |-> kk, score_threshold |-> th,
                    raised |-> s.raised, results |-> s.results]
    /\ UNCHANGED <<processed, statsFile, diskVars, thread_pc, index_reads,
                   metadata_reads, raw_text, parsed>>
    /\ UNCHANGED <<queryVars, llm_service, last, load_attempts, sideVars>>

\* The caller has consumed the results or the exception of its search.
StoreReturn ==
    /\ call # NoStoreCall
    /\ call' = NoStoreCall
    /\ UNCHANGED <<processed, statsFile, diskVars, vector_store, thread_pc,
                   index_reads, metadata_reads, raw_text, parsed>>
    /\ UNCHANGED <<queryVars, llm_service, last, load_attempts, sideVars>>

IndexNext ==
    \/ IndexerRun
    \/ StoreSearch
    \/ StoreReturn

IndexSpec == IndexInit /\ [][IndexNext]_vars

\* C11: index alignment.  Once LegalIndexer.run has completed on a non-empty
\* document list, the saved index holds one vector per document, vector i is
\* the embedding of the enriched text of document i, the saved metadata is the
\* same documents in the same order, and total_documents of the sidecar equals
\* both counts; every record a search returns is the metadata record stored
\* at the position of the vector that scored.
C11_IndexAlignment ==
    /\ statsFile.some =>
        /\ processed # <<>>
        /\ indexFile.state = "ok" /\ metadataFile.state = "ok"
        /\ Len(indexFile.data) = Len(processed)
        /\ \A i \in 1..Len(processed) :
              indexFile.data[i] = Encode(PrepareTextForEmbedding(processed[i]))
        /\ metadataFile.data = processed
        /\ statsFile.v.total_documents = Len(indexFile.data)
        /\ statsFile.v.total_documents = Len(metadataFile.data)
    /\ (call.op = "search" /\ ~call.raised) =>
        \A j \in 1..Len(call.results) :
            \E i \in 1..Len(vector_store.index.v) :
                /\ i <= Len(vector_store.documents.v)
                /\ call.results[j] =
                       WithScore(vector_store.documents.v[i],
                                 InnerProduct(call.q, vector_store.index.v[i]))
                /\ vector_store.documents.v[i] = processed[i]

\* The indexer ran on two different articles and a search returned both.
C11_Witness ==
    /\ statsFile.some
    /\ Len(processed) = 2 /\ processed[1] # processed[2]
    /\ call.op = "search" /\ ~call.raised /\ Len(call.results) = 2

\* ------------------------------------------- concurrent first access
\* Threads that call ensure_loaded on the shared singleton while it is not
\* loaded.  _initialize holds no lock: a thread can be preempted between any
\* two of its statements, and faiss.read_index and pickle.load release the
\* interpreter lock while they read.
Threads == 1..MaxThreads

ThreadInit ==
    /\ indexFile \in IndexFiles
    /\ metadataFile \in MetadataFiles
    /\ vector_store = [initialized |-> FALSE, index |-> None, documents |-> None]
    /\ thread_pc = [t \in Threads |-> "idle"]
    /\ index_reads = 0 /\ metadata_reads = 0
    /\ processed = <<>> /\ statsFile = None /\ call = NoStoreCall
    /\ raw_text = <<>> /\ parsed = NotParsed
    /\ llm_service = "None" /\ QueryIdle /\ last = NoCall /\ load_attempts = 0
    /\ SideIdle

threadFrame == <<processed, statsFile, call, raw_text, parsed, diskVars, queryVars,
                 llm_service, last, load_attempts, sideVars>>

\* Lines 58 and 33: the two tests of _initialized.
ThreadGuard(t) ==
    /\ thread_pc[t] = "idle"
    /\ thread_pc' = [thread_pc EXCEPT
                        ![t] = IF vector_store.initialized THEN "done" ELSE "paths"]
    /\ UNCHANGED <<vector_store, index_reads, metadata_reads, threadFrame>>

\* Lines 41-44: the existence tests of the two paths.
ThreadCheckPaths(t) ==
    /\ thread_pc[t] = "paths"
    /\ thread_pc' = [thread_pc EXCEPT
                        ![t] = IF indexFile.state = "absent" \/ metadataFile.state = "absent"
                               THEN "raised" ELSE "read_index"]
    /\ UNCHANGED <<vector_store, index_reads, metadata_reads, threadFrame>>

\* Line 47: self.index = faiss.read_index(...)
ThreadReadIndex(t) ==
    /\ thread_pc[t] = "read_index"
    /\ index_reads' = index_reads + 1
    /\ IF indexFile.state = "corrupt"
       THEN /\ thread_pc' = [thread_pc EXCEPT ![t] = "raised"]
            /\ UNCHANGED vector_store
       ELSE /\ thread_pc' = [thread_pc EXCEPT ![t] = "read_metadata"]
            /\ vector_store' = [vector_store EXCEPT !.index = Some(indexFile.data)]
    /\ UNCHANGED <<metadata_reads, threadFrame>>

\* Lines 50-51: self.documents = pickle.load(f)
ThreadReadMetadata(t) ==
    /\ thread_pc[t] = "read_metadata"
    /\ metadata_reads' = metadata_reads + 1
    /\ IF metadataFile.state = "corrupt"
       THEN /\ thread_pc' = [thread_pc EXCEPT ![t] = "raised"]
            /\ UNCHANGED vector_store
       ELSE /\ thread_pc' = [thread_pc EXCEPT ![t] = "set_flag"]
            /\ vector_store' = [vector_store EXCEPT !.documents = Some(metadataFile.data)]
    /\ UNCHANGED <<index_reads, threadFrame>>

\* Line 53: self._initialized = True
ThreadSetFlag(t) ==
    /\ thread_pc[t] = "set_flag"
    /\ vector_store' = [vector_store EXCEPT !.initialized = TRUE]
    /\ thread_pc' = [thread_pc EXCEPT ![t] = "done"]
    /\ UNCHANGED <<index_reads, metadata_reads, threadFrame>>

ThreadNext ==
    \E t \in Threads :
        \/ ThreadGuard(t)
        \/ ThreadCheckPaths(t)
        \/ ThreadReadIndex(t)
        \/ ThreadReadMetadata(t)
        \/ ThreadSetFlag(t)

ThreadSpec == ThreadInit /\ [][ThreadNext]_vars

\* C12: lazy initialization is effectively-once under concurrent first
\* access: however the calls of ensure_loaded interleave, the index file and
\* the metadata file, when both are readable, are each read at most once.
C12_ArtifactsReadOnce ==
    (indexFile.state = "ok" /\ metadataFile.state = "ok") =>
        (index_reads <= 1 /\ metadata_reads <= 1)

\* ------------------------------------------------- properties of searching
\* C13: no serving-time operation mutates the loaded index or its metadata.
\* Once the store is loaded, no step of query, retrieve_only or health_check
\* (and so no search or search_with_context they make) changes the index or
\* any record of the metadata sequence, and no metadata record ever carries
\* a similarity_score: the score is attached to the result's copy only.
C13_ServingNeverMutatesTheStore ==
    [][/\ vector_store.initialized => vector_store' = vector_store
       /\ vector_store'.documents.some =>
            \A i \in 1..Len(vector_store'.documents.v) :
                "similarity_score" \notin DOMAIN vector_store'.documents.v[i]]_vars

\* A query on a loaded store of two records returned both, scored.
C13_Witness ==
    /\ vector_store.initialized
    /\ Len(vector_store.documents.v) = 2
    /\ pc = "returned" /\ Len(sources) = 2
    /\ \A j \in 1..2 : "similarity_score" \in DOMAIN sources[j]

\* The score of position i (1-based) of the loaded index against the query of
\* the last direct search.
CallScore(i) == InnerProduct(call.q, vector_store.index.v[i])

\* Position i is one of the k nearest of the last direct search: fewer than k
\* positions come before it (a higher score, or the same score at a lower
\* position).
AmongNearest(i) ==
    Cardinality({j \in 1..Len(vector_store.index.v) :
                    \/ CallScore(j) > CallScore(i)
                    \/ CallScore(j) = CallScore(i) /\ j < i}) < call.k

\* The last direct search passes position i through its threshold.
PassesThreshold(i) ==
    ~call.score_threshold.some \/ CallScore(i) >= call.score_threshold.v

\* The last direct search returned the record of position i with its score.
Returned(i) ==
    \E j \in 1..Len(call.results) :
        call.results[j] = WithScore(vector_store.documents.v[i], CallScore(i))

SearchReturned == call.op = "search" /\ ~call.raised

Min2(a, b) == IF a < b THEN a ELSE b

\* C14: threshold filtering.  When search is given a score_threshold, every
\* result it returns scores at least the threshold and every one of the k
\* nearest entries scoring at least the threshold is returned; when the
\* threshold is None nothing is filtered: all of the k nearest are returned.
C14_ThresholdExcludesExactlyTheLowScores ==
    SearchReturned =>
        /\ call.score_threshold.some =>
              \A j \in 1..Len(call.results) :
                  call.results[j].similarity_score >= call.score_threshold.v
        /\ \A i \in 1..Len(vector_store.index.v) :
              (AmongNearest(i) /\ PassesThreshold(i)) => Returned(i)
        /\ ~call.score_threshold.some =>
              Len(call.results) = Min2(call.k, Len(vector_store.index.v))

\* A search with a threshold kept one of its two nearest entries and dropped
\* the other.
C14_Witness ==
    /\ SearchReturned
    /\ call.score_threshold.some /\ call.k = 2
    /\ Len(vector_store.index.v) = 2
    /\ Len(call.results) = 1
    /\ \E i \in 1..2 : CallScore(i) = call.score_threshold.v /\ Returned(i)

\* The ways to assign distinct index positions to the results of the last
\* direct search.
DistinctPositions ==
    {f \in [1..Len(call.results) -> 1..Len(vector_store.index.v)] :
        \A a, b \in 1..Len(call.results) : a # b => f[a] # f[b]}

\* C15: k larger than the corpus.  A search returns at most min(k, corpus
\* size) entries, each the metadata record of a distinct index position with
\* that position's score (never a placeholder); with k above the corpus size
\* and no threshold it returns every record.
C15_NoPlaceholderWhenKExceedsCorpus ==
    SearchReturned =>
        /\ Len(call.results) <= Min2(call.k, Len(vector_store.index.v))
        /\ \E f \in DistinctPositions :
              \A j \in 1..Len(call.results) :
                  call.results[j] =
                      WithScore(vector_store.documents.v[f[j]], CallScore(f[j]))
        /\ (call.k > Len(vector_store.index.v) /\ ~call.score_threshold.some) =>
              Len(call.results) = Len(vector_store.index.v)

\* A search with k = 3 and no threshold on a corpus of two records returned
\* the two.
C15_Witness ==
    /\ SearchReturned
    /\ ~call.score_threshold.some
    /\ call.k = 3 /\ Len(vector_store.index.v) = 2
    /\ Len(call.results) = 2

\* The similarity scores of a result list are in descending order.
Descending(results) ==
    \A a, b \in 1..Len(results) :
        a < b => results[a].similarity_score >= results[b].similarity_score

\* The numbered entries of a context string follow the results they were
\* made from.
ContextFollows(ctx, results) ==
    /\ Len(ctx) = Len(results)
    /\ \A i \in 1..Len(results) :
          /\ ctx[i].n = i
          /\ ctx[i].label = results[i].payload.label
          /\ ctx[i].relevancia = results[i].similarity_score

\* The sources of a response follow the results they were formatted from.
SourcesFollow(srcs, results) ==
    /\ Len(srcs) = Len(results)
    /\ \A i \in 1..Len(results) :
          /\ srcs[i].id = results[i].id
          /\ srcs[i].similarity_score = results[i].similarity_score

\* C16: rank order.  Every result list search_with_context returns (to query
\* and to retrieve_only) is ordered by descending similarity score, the
\* numbered entries of its context string are in that order, and the sources
\* of every RAGResponse are the committed results in that order.
C16_ResultsAreRankOrdered ==
    /\ \A n \in 1..Len(searches) :
          (~searches[n].raised /\ searches[n].results # <<>>) =>
              /\ Descending(searches[n].results)
              /\ ContextFollows(searches[n].context, searches[n].results)
    /\ Descending(sources)
    /\ sources # <<>> => ContextFollows(context, sources)
    /\ (last.op = "search_with_context" /\ ~last.raised /\ last.value[1] # <<>>) =>
          /\ Descending(last.value[1])
          /\ ContextFollows(last.value[2], last.value[1])
    /\ response.some =>
          /\ Descending(response.v.sources)
          /\ SourcesFollow(response.v.sources, sources)

\* A response carries two sources of different scores.
C16_Witness ==
    /\ response.some
    /\ Len(response.v.sources) = 2
    /\ response.v.sources[1].similarity_score > response.v.sources[2].similarity_score

\* ------------------------------------------------- properties of rewriting
\* The enhanced query as the claim words it: the original query; then, if
\* there are concepts, the first (up to MaxConceptos) of them joined by
\* spaces; then the first optimized query if it differs from the original.
EnhancedAsSpecified(result, original) ==
    LET conceptos == result.conceptos_clave
        queries == result.queries_optimizadas
        n == Min2(Len(conceptos), MaxConceptos)
    IN JoinSep(<<original>>
               \o (IF Len(conceptos) > 0
                   THEN <<Flatten([i \in 1..n |-> conceptos[i]])>> ELSE <<>>)
               \o (IF Len(queries) > 0 /\ queries[1] # original
                   THEN <<queries[1]>> ELSE <<>>))

\* The rewrite results build_enhanced_query is applied to: every number of
\* concepts up to five, every list of variants, and the fallback result.
ConceptoPrefixes == {SubSeq(Conceptos5, 1, n) : n \in 0..Len(Conceptos5)}
EnhanceQueries == {<<"q">>, <<"v1">>}
EnhanceResults(uq) ==
    {RewriteFallback(uq)}
    \cup {[tema_legal |-> "Tema", conceptos_clave |-> c,
           queries_optimizadas |-> qs, leyes_relevantes |-> <<"Ley">>] :
             c \in ConceptoPrefixes, qs \in SeqsUpTo(VariantTexts, MaxVariants)}

\* RAGService.query at line 84: rewrite_query has returned some result.
EnhanceInit ==
    /\ user_query \in EnhanceQueries
    /\ rewrite_info \in {Some(o) : o \in EnhanceResults(user_query)}
    /\ pc = "rewrite"
    /\ search_query = user_query
    /\ top_k = None /\ score_threshold = None /\ use_query_rewriting = TRUE
    /\ k = rag_top_k /\ threshold = rag_score_threshold
    /\ sources = <<>> /\ context = <<>> /\ alt = 0 /\ response = None
    /\ rewrite_outcome = [ended |-> "returned", reply |-> "json"]
    /\ embeds = <<>> /\ searches = <<>> /\ generations = <<>> /\ failed_at = "none"
    /\ indexFile \in IndexFiles /\ metadataFile \in MetadataFiles
    /\ vector_store = [initialized |-> FALSE, index |-> None, documents |-> None]
    /\ llm_service = "GeminiService" /\ last = NoCall /\ load_attempts = 0
    /\ OfflineIdle

\* RAGService.query, line 85: search_query = build_enhanced_query(rewrite_info, user_query)
BuildEnhanced ==
    /\ pc = "rewrite"
    /\ search_query' = BuildEnhancedQuery(rewrite_info.v, user_query)
    /\ pc' = "primary"
    /\ UNCHANGED <<user_query, top_k, score_threshold, use_query_rewriting, k,
                   threshold, rewrite_info, sources, context, alt, response,
                   rewrite_outcome, embeds, searches, generations, failed_at>>
    /\ UNCHANGED <<offlineVars, diskVars, vector_store, llm_service, last,
                   load_attempts>>

EnhanceNext == BuildEnhanced

EnhanceSpec == EnhanceInit /\ [][EnhanceNext]_vars

\* C17: build_enhanced_query.  After a rewrite that returned, the search query
\* is the original query, then the first up to 4 concepts joined by spaces
\* (only if there are concepts), then the first optimized query (only if it
\* differs from the original), joined by the separator; for the fallback
\* rewrite result it is the original query.
C17_EnhancedQueryIsOriginalConceptsFirstVariant ==
    (pc = "primary" /\ rewrite_info.some) =>
        /\ search_query = EnhancedAsSpecified(rewrite_info.v, user_query)
        /\ rewrite_info.v = RewriteFallback(user_query) => search_query = user_query

\* A rewrite returned five concepts and a first variant that differs from the
\* query: the enhanced query holds the query, four concepts and the variant.
C17_Witness ==
    /\ pc = "primary" /\ rewrite_info.some
    /\ Len(rewrite_info.v.conceptos_clave) = 5
    /\ rewrite_info.v.queries_optimizadas # <<>>
    /\ rewrite_info.v.queries_optimizadas[1] # user_query
    /\ search_query = <<"q", SEP, "c1", "c2", "c3", "c4", SEP, "v1">>

\* C18: rewriting disabled.  In a query with use_query_rewriting = false the
\* rewriter is never called, the one embedding is of the raw user query, the
\* one search is the primary search of that query at the configured k and
\* threshold, no cascade search happens, and the response carries no
\* rewrite_info.
C18_DisabledRewritingSearchesTheRawQuery ==
    (pc # "idle" /\ ~use_query_rewriting) =>
        /\ pc \notin {"rewrite", "cascade"}
        /\ rewrite_outcome = NoRewrite
        /\ rewrite_info = None
        /\ search_query = user_query
        /\ k = PyOr(top_k, rag_top_k)
        /\ threshold = PyOr(score_threshold, rag_score_threshold)
        /\ Len(embeds) <= 1 /\ Len(searches) <= 1
        /\ \A n \in 1..Len(embeds) : embeds[n] = user_query
        /\ \A n \in 1..Len(searches) :
              /\ searches[n].phase = "primary"
              /\ searches[n].text = user_query
              /\ searches[n].k = k
              /\ searches[n].threshold = threshold
        /\ pc \in {"answer", "returned"} => Len(searches) = 1
        /\ response.some => response.v.rewrite_info = None

\* A query with rewriting disabled returned an answer over its sources.
C18_Witness ==
    /\ ~use_query_rewriting
    /\ pc = "returned" /\ response.some
    /\ sources # <<>> /\ Len(searches) = 1

\* ------------------------------------------------------------------ parsers
\* A normalized text is the sequence of the markers the parsers' patterns can
\* match, in the order of their offsets; the position of a marker stands for
\* match.start().  A heading name or an article label is the pair of its word
\* and its number; an absent level (None) is the empty sequence.
Markers ==
    {[kind |-> "LIBRO", num |-> 1], [kind |-> "SECCION", num |-> 1],
     [kind |-> "TITULO_PRELIMINAR", num |-> 0],
     [kind |-> "TITULO", num |-> 1], [kind |-> "TITULO", num |-> 2],
     [kind |-> "CAPITULO", num |-> 1], [kind |-> "SUBCAPITULO", num |-> 1],
     [kind |-> "ARTICULO", num |-> 1], [kind |-> "ARTICULO", num |-> 2],
     [kind |-> "DISPOSICIONES_FINALES", num |-> 0],
     [kind |-> "DISPOSICIONES_TRANSITORIAS", num |-> 0],
     [kind |-> "ORDINAL", num |-> 1]}
\* The texts of at most n markers.
RawTexts(n) == SeqsUpTo(Markers, n)

ParserNames == {"constitution", "civil_code", "violence_law"}

\* The kinds of marker each pattern matches.  CAPÍTULO is searched without a
\* word boundary and ignoring case, so it also matches inside SUBCAPÍTULO;
\* only the civil code's TÍTULO pattern accepts PRELIMINAR.
PatternKinds(parser, pattern) ==
    CASE pattern = "LIBRO" -> {"LIBRO"}
      [] pattern = "SECCION" -> {"SECCION"}
      [] pattern = "TITULO" ->
            IF parser = "civil_code" THEN {"TITULO", "TITULO_PRELIMINAR"} ELSE {"TITULO"}
      [] pattern = "CAPITULO" -> {"CAPITULO", "SUBCAPITULO"}
      [] pattern = "SUBCAPITULO" -> {"SUBCAPITULO"}
      [] pattern = "ARTICULO" -> {"ARTICULO"}
      [] pattern = "ORDINAL" -> {"ORDINAL"}

\* pattern.finditer(text): the positions of the matches between lo and hi, in
\* order.
FindIter(parser, pattern, text, lo, hi) ==
    SelectSeq([i \in 1..Len(text) |-> i],
              LAMBDA i : /\ lo <= i /\ i <= hi
                         /\ text[i].kind \in PatternKinds(parser, pattern))

NoHeadings ==
    [libro |-> <<>>, seccion |-> <<>>, titulo |-> <<>>, capitulo |-> <<>>,
     subcapitulo |-> <<>>]

\* The body of one loop of _find_hierarchy_at_position for a match m of
\* `pattern`: the assignments to the current_* variables.
AssignHeading(parser, pattern, cur, m) ==
    CASE parser = "constitution" /\ pattern = "TITULO" ->
            [cur EXCEPT !.titulo = <<"Título", m.num>>, !.capitulo = <<>>]
      [] parser = "constitution" /\ pattern = "CAPITULO" ->
            [cur EXCEPT !.capitulo = <<"Capítulo", m.num>>]
      [] parser = "civil_code" /\ pattern = "LIBRO" ->
            [cur EXCEPT !.libro = <<"Libro", m.num>>, !.seccion = <<>>,
                        !.titulo = <<>>, !.capitulo = <<>>]
      [] parser = "civil_code" /\ pattern = "SECCION" ->
            [cur EXCEPT !.seccion = <<"Sección", m.num>>]
      [] parser = "civil_code" /\ pattern = "TITULO" ->
            IF m.kind = "TITULO_PRELIMINAR" THEN cur
            ELSE [cur EXCEPT !.titulo = <<"Título", m.num>>]
      [] parser = "civil_code" /\ pattern = "CAPITULO" ->
            [cur EXCEPT !.capitulo = <<"Capítulo", m.num>>]
      [] parser = "violence_law" /\ pattern = "TITULO" ->
            [cur EXCEPT !.titulo = <<"Título", m.num>>, !.capitulo = <<>>,
                        !.subcapitulo = <<>>]
      [] parser = "violence_law" /\ pattern = "CAPITULO" ->
            [cur EXCEPT !.capitulo = <<"Capítulo", m.num>>, !.subcapitulo = <<>>]
      [] parser = "violence_law" /\ pattern = "SUBCAPITULO" ->
            [cur EXCEPT !.subcapitulo = <<"Subcapítulo", m.num>>]

RECURSIVE ScanLoop_WholeText(_, _, _, _, _, _)
\* The loop without its position test: every match is assigned.
ScanLoop_WholeText(parser, pattern, text, matches, position, cur) ==
    IF matches = <<>> THEN cur
    ELSE ScanLoop_WholeText(parser, pattern, text, Tail(matches), position,
                            AssignHeading(parser, pattern, cur, text[Head(matches)]))

RECURSIVE ScanLoop(_, _, _, _, _, _)
\* One `for match in PATTERN.finditer(text)` loop of
\* _find_hierarchy_at_position: matches that start before `position` are
\* assigned in order, the first one at or after it breaks the loop.
ScanLoop(parser, pattern, text, matches, position, cur) ==
    IF matches = <<>> THEN cur
    ELSE IF Head(matches) < position
    THEN ScanLoop(parser, pattern, text, Tail(matches), position,
                  AssignHeading(parser, pattern, cur, text[Head(matches)]))
    ELSE cur

\* The loop over one pattern, on the whole text.
Scan(parser, pattern, text, position, cur) ==
    ScanLoop(parser, pattern, text, FindIter(parser, pattern, text, 1, Len(text)),
             position, cur)

\* The parts of level_2 that are set, " > ".join of them (None when none is).
JoinLevels(parts) == SelectSeq(parts, LAMBDA p : p # <<>>)

\* ConstitutionParser._find_hierarchy_at_position
ConstitutionHierarchy(text, position) ==
    LET c1 == Scan("constitution", "TITULO", text, position, NoHeadings)
        c2 == Scan("constitution", "CAPITULO", text, position, c1)
    IN [level_1 |-> c2.titulo, level_2 |-> JoinLevels(<<c2.capitulo>>), level_3 |-> <<>>]

\* re.search(r'TÍTULO\s+PRELIMINAR', text[:position])
HasTituloPreliminar(text, position) ==
    \E i \in 1..Len(text) : i < position /\ text[i].kind = "TITULO_PRELIMINAR"

\* CivilCodeParser._find_hierarchy_at_position
CivilCodeHierarchy(text, position) ==
    LET c1 == Scan("civil_code", "LIBRO", text, position, NoHeadings)
        c2 == IF HasTituloPreliminar(text, position) /\ c1.libro = <<>>
              THEN [c1 EXCEPT !.libro = <<"Título Preliminar">>] ELSE c1
        c3 == Scan("civil_code", "SECCION", text, position, c2)
        c4 == Scan("civil_code", "TITULO", text, position, c3)
        c5 == Scan("civil_code", "CAPITULO", text, position, c4)
    IN [level_1 |-> c5.libro,
        level_2 |-> JoinLevels(<<c5.seccion, c5.titulo, c5.capitulo>>),
        level_3 |-> <<>>]

\* ViolenceLawParser._find_hierarchy_at_position
ViolenceLawHierarchy(text, position) ==
    LET c1 == Scan("violence_law", "TITULO", text, position, NoHeadings)
        c2 == Scan("violence_law", "CAPITULO", text, position, c1)
        c3 == Scan("violence_law", "SUBCAPITULO", text, position, c2)
    IN [level_1 |-> c3.titulo,
        level_2 |-> JoinLevels(<<c3.capitulo, c3.subcapitulo>>),
        level_3 |-> <<>>]

FindHierarchyAtPosition(parser, text, position) ==
    CASE parser = "constitution" -> ConstitutionHierarchy(text, position)
      [] parser = "civil_code" -> CivilCodeHierarchy(text, position)
      [] parser = "violence_law" -> ViolenceLawHierarchy(text, position)


\* _generate_article_id / _generate_disposicion_id
ArticleId(parser, num) ==
    CASE parser = "constitution" -> <<"CONST_1993_ART", num>>
      [] parser = "civil_code" -> <<"CC_ART", num>>
      [] parser = "violence_law" -> <<"LEY30364_ART", num>>
DisposicionId(parser, tipo, num) ==
    IF parser = "constitution" THEN <<"CONST_1993_DISP", num>>
    ELSE <<"LEY30364_DISP", tipo, num>>

\* The LegalArticle built for the article marker at position p (`at` records
\* match.start(), which the code only uses to resolve the hierarchy).
ArticleAt(parser, text, p) ==
    [id |-> ArticleId(parser, text[p].num),
     kind |-> "article",
     label |-> <<"Artículo", text[p].num>>,
     hierarchy |-> FindHierarchyAtPosition(parser, text, p),
     at |-> p]

\* The LegalArticle built for the ordinal at position p of a dispositions
\* section.
DisposicionAt(parser, tipo, text, p) ==
    [id |-> DisposicionId(parser, tipo, text[p].num),
     kind |-> "disposition",
     label |-> <<"Disposición", tipo, text[p].num>>,
     hierarchy |-> [level_1 |-> <<"Disposiciones", tipo>>, level_2 |-> <<>>,
                    level_3 |-> <<>>],
     at |-> p]

\* Whether parse keeps a seen_ids set and skips an id it has seen.
SkipsSeenIds(parser) == parser \in {"civil_code", "violence_law"}

RECURSIVE AppendRecords(_, _, _)
\* A loop of parse over the records of its matches: articles.append(article),
\* after the seen_ids test where the parser has one.
AppendRecords(parser, records, articles) ==
    IF records = <<>> THEN articles
    ELSE LET r == Head(records)
             seen_ids == {articles[i].id : i \in 1..Len(articles)}
         IN IF SkipsSeenIds(parser) /\ r.id \in seen_ids
            THEN AppendRecords(parser, Tail(records), articles)
            ELSE AppendRecords(parser, Tail(records), Append(articles, r))

\* The first position of a marker of `kind` after position lo, or 0.
FirstAfter(text, kind, lo) ==
    IF \E i \in (lo + 1)..Len(text) : text[i].kind = kind
    THEN CHOOSE i \in (lo + 1)..Len(text) :
            /\ text[i].kind = kind
            /\ \A j \in (lo + 1)..(i - 1) : text[j].kind # kind
    ELSE 0

\* The records of the ordinals between lo and hi.
Disposiciones(parser, tipo, text, lo, hi) ==
    LET ms == FindIter(parser, "ORDINAL", text, lo, hi)
    IN [n \in 1..Len(ms) |-> DisposicionAt(parser, tipo, text, ms[n])]

\* The records of all the article matches of the text.
Articles(parser, text) ==
    LET ms == FindIter(parser, "ARTICULO", text, 1, Len(text))
    IN [n \in 1..Len(ms) |-> ArticleAt(parser, text, ms[n])]

\* ConstitutionParser.parse: every article match, then every ordinal after the
\* heading of the final dispositions.
ParseConstitution(text) ==
    LET arts == AppendRecords("constitution", Articles("constitution", text), <<>>)
        h == FirstAfter(text, "DISPOSICIONES_FINALES", 0)
    IN IF h = 0 THEN arts
       ELSE AppendRecords("constitution",
                          Disposiciones("constitution", "FINAL", text, h + 1, Len(text)),
                          arts)

\* CivilCodeParser.parse
ParseCivilCode(text) ==
    AppendRecords("civil_code", Articles("civil_code", text), <<>>)

\* ViolenceLawParser.parse: the articles, the final dispositions (up to the
\* heading of the transitory ones), the transitory dispositions.
ParseViolenceLaw(text) ==
    LET arts == AppendRecords("violence_law", Articles("violence_law", text), <<>>)
        hf == FirstAfter(text, "DISPOSICIONES_FINALES", 0)
        ht == FirstAfter(text, "DISPOSICIONES_TRANSITORIAS", 0)
        endf == IF hf # 0 /\ FirstAfter(text, "DISPOSICIONES_TRANSITORIAS", hf) # 0
                THEN FirstAfter(text, "DISPOSICIONES_TRANSITORIAS", hf) - 1
                ELSE Len(text)
        finals == IF hf = 0 THEN arts
                  ELSE AppendRecords("violence_law",
                                     Disposiciones("violence_law", "FINAL", text,
                                                   hf + 1, endf),
                                     arts)
    IN IF ht = 0 THEN finals
       ELSE AppendRecords("violence_law",
                          Disposiciones("violence_law", "TRANS", text, ht + 1, Len(text)),
                          finals)

\* A parser was built on a cleaned text (extract_text).
ParserInit ==
    /\ raw_text \in RawTexts(MaxTextLen)
    /\ parsed = NotParsed
    /\ processed = <<>> /\ statsFile = None /\ call = NoStoreCall
    /\ thread_pc = [t \in 1..MaxThreads |-> "idle"]
    /\ index_reads = 0 /\ metadata_reads = 0
    /\ indexFile = AbsentFile /\ metadataFile = AbsentFile
    /\ vector_store = [initialized |-> FALSE, index |-> None, documents |-> None]
    /\ llm_service = "None" /\ QueryIdle /\ last = NoCall /\ load_attempts = 0
    /\ SideIdle

parserFrame == <<raw_text, processed, statsFile, call, thread_pc, index_reads,
                 metadata_reads, diskVars, vector_store, queryVars, llm_service,
                 last, load_attempts, sideVars>>

\* parse_constitution(pdf_path)
RunConstitutionParser ==
    /\ parsed = NotParsed
    /\ parsed' = [parser |-> "constitution", articles |-> ParseConstitution(raw_text)]
    /\ UNCHANGED parserFrame

\* CivilCodeParser(pdf_path).parse()
RunCivilCodeParser ==
    /\ parsed = NotParsed
    /\ parsed' = [parser |-> "civil_code", articles |-> ParseCivilCode(raw_text)]
    /\ UNCHANGED parserFrame

\* parse_violence_law(pdf_path)
RunViolenceLawParser ==
    /\ parsed = NotParsed
    /\ parsed' = [parser |-> "violence_law", articles |-> ParseViolenceLaw(raw_text)]
    /\ UNCHANGED parserFrame

ParserNext ==
    \/ RunConstitutionParser
    \/ RunCivilCodeParser
    \/ RunViolenceLawParser

ParserSpec == ParserInit /\ [][ParserNext]_vars


\* ------------------------------------------------- properties of parsing
\* The heading kinds a parser's _find_hierarchy_at_position scans for, and
\* the one that is its level_1.
HeadingKinds(parser) ==
    IF parser = "civil_code"
    THEN {"LIBRO", "SECCION", "TITULO", "CAPITULO", "SUBCAPITULO"}
    ELSE {"TITULO", "CAPITULO", "SUBCAPITULO"}
TopKind(parser) == IF parser = "civil_code" THEN "LIBRO" ELSE "TITULO"

\* The position of the nearest heading before position p, or 0.
NearestHeading(parser, text, p) ==
    LET before == {i \in 1..(p - 1) : text[i].kind \in HeadingKinds(parser)}
    IN IF before = {} THEN 0
       ELSE CHOOSE i \in before : \A j \in before : j <= i

\* C19: hierarchy reset.  For every article a parser returns whose nearest
\* preceding heading is a top-level one (a Título for the constitution and the
\* violence law, a Libro for the civil code), the lower levels are absent:
\* level_2 and level_3 are None, whatever headings of an earlier division
\* precede that heading.
C19_NewDivisionResetsLowerLevels ==
    \A n \in 1..Len(parsed.articles) :
        LET a == parsed.articles[n]
            h == NearestHeading(parsed.parser, raw_text, a.at)
        IN (a.kind = "article" /\ h # 0 /\ raw_text[h].kind = TopKind(parsed.parser)) =>
               (a.hierarchy.level_2 = <<>> /\ a.hierarchy.level_3 = <<>>)

\* C20: deduplication by id.  No two records a parser returns have the same
\* id, and of several article markers of one number only the first yields a
\* record.
C20_ParseOutputHasDistinctIds ==
    \A n, o \in 1..Len(parsed.articles) :
        n # o => parsed.articles[n].id # parsed.articles[o].id

\* ------------------------------------------------- failures of external calls
\* C21: a failure of the generation call or of an embedding call during query
\* reaches the caller and is not retried.  Within one query generation is
\* invoked at most once; when it raises, or when an embedding raises, the
\* query raises at once with no response, and the failed call is the last
\* call it made; a query that returned with sources got its answer from the
\* one generation call, which did not raise.
C21_ExternalFailuresPropagateWithoutRetry ==
    /\ Len(generations) <= 1
    /\ \A i \in 1..Len(generations) :
        generations[i].raised => (pc = "raised" /\ failed_at = "generate")
    /\ failed_at # "none" => (pc = "raised" /\ response = None)
    /\ failed_at \in {"primary_embed", "cascade_embed"} =>
        /\ Len(embeds) = Len(searches) + 1
        /\ generations = <<>>
        /\ \A i \in 1..Len(embeds) : \A j \in 1..Len(embeds) :
            (i < j /\ embeds[i] = embeds[j]) => ~searches[i].raised
    /\ failed_at = "generate" => sources # <<>>
    /\ (pc = "returned" /\ sources # <<>>) =>
        /\ Len(generations) = 1
        /\ ~generations[1].raised

\* The backend timed out on the answer of a query that had found sources.
C21_Witness ==
    /\ pc = "raised" /\ failed_at = "generate"
    /\ Len(generations) = 1 /\ generations[1].raised
    /\ sources # <<>> /\ response = None

\* C22: every rewrite result that rewrite_query produced, parsed from the
\* backend's reply or built by the fallback, has a non-empty
\* queries_optimizadas.
C22_RewriteResultHasAQuery ==
    (rewrite_outcome.ended = "returned" /\ rewrite_info.some) =>
        rewrite_info.v.queries_optimizadas # <<>>

\* ----------------------------------------------------------------- embedder
\* LegalEmbedder._initialize on the object obj; loadOk says whether
\* SentenceTransformer(...) returns.  On a failure the object keeps no model
\* attribute.
EmbedderInitialize(obj, loadOk) ==
    IF loadOk THEN [raised |-> FALSE, obj |-> [obj EXCEPT !.has_model = TRUE]]
    ELSE [raised |-> TRUE, obj |-> obj]

\* LegalEmbedder.__new__: instance is cls._instance before the call.  Line 18
\* stores the new object in cls._instance before line 19 initializes it.
\* Returns [raised, returned, instance, loaded]: the object handed to the
\* caller, cls._instance after the call, and whether the model load ran.
EmbedderNew(instance, loadOk) ==
    IF instance = None
    THEN LET created == [id |-> 1, has_model |-> FALSE]
             i == EmbedderInitialize(created, loadOk)
         IN IF i.raised
            THEN [raised |-> TRUE, returned |-> None, instance |-> Some(i.obj),
                  loaded |-> TRUE]
            ELSE [raised |-> FALSE, returned |-> Some(i.obj), instance |-> Some(i.obj),
                  loaded |-> TRUE]
    ELSE [raised |-> FALSE, returned |-> instance, instance |-> instance,
          loaded |-> FALSE]

\* LegalEmbedder.embed_query on the object obj: self.model.encode(query, ...).
\* Without a model attribute the call raises AttributeError; with one the
\* encoder raises or returns a unit vector.
EmbedQuery(obj, query, e) ==
    IF ~obj.has_model THEN [query |-> query, raised |-> TRUE, v |-> 0]
    ELSE [query |-> query, raised |-> e.raised, v |-> e.v]

\* The embedder module was imported; nothing else is looked at.
EmbedderInit ==
    /\ EmbedderIdle
    /\ enriched = None
    /\ AudioIdle
    /\ processed = <<>> /\ statsFile = None /\ call = NoStoreCall
    /\ thread_pc = [t \in 1..MaxThreads |-> "idle"]
    /\ index_reads = 0 /\ metadata_reads = 0
    /\ raw_text = <<>> /\ parsed = NotParsed
    /\ indexFile = AbsentFile /\ metadataFile = AbsentFile
    /\ vector_store = [initialized |-> FALSE, index |-> None, documents |-> None]
    /\ llm_service = "None" /\ QueryIdle /\ last = NoCall /\ load_attempts = 0

embedderFrame == <<processed, statsFile, call, thread_pc, index_reads, metadata_reads,
                   raw_text, parsed, diskVars, vector_store, queryVars, llm_service,
                   last, load_attempts, enriched, audioVars>>

\* A caller evaluates LegalEmbedder(): RAGService.__init__ (line 51) or the
\* lifespan of the application (api/main.py line 25).
Construct ==
    /\ Len(constructions) < MaxConstructions
    /\ \E loadOk \in BOOLEAN :
        LET n == EmbedderNew(embedder_instance, loadOk) IN
        /\ embedder_instance' = n.instance
        /\ model_loads' = IF n.loaded THEN model_loads + 1 ELSE model_loads
        /\ constructions' = Append(constructions,
                                   [raised |-> n.raised, returned |-> n.returned,
                                    loaded |-> n.loaded])
    /\ UNCHANGED <<embed_calls, embedderFrame>>

\* A caller that was handed the singleton calls embed_query on it.
EmbedQueryCall ==
    /\ Len(embed_calls) < MaxEmbedCalls
    /\ \E i \in 1..Len(constructions) : ~constructions[i].raised
    /\ \E query \in VariantTexts, e \in EmbedOutcomes :
        embed_calls' = Append(embed_calls, EmbedQuery(embedder_instance.v, query, e))
    /\ UNCHANGED <<embedder_instance, model_loads, constructions, embedderFrame>>

EmbedderNext ==
    \/ Construct
    \/ EmbedQueryCall

EmbedderSpec == EmbedderInit /\ [][EmbedderNext]_vars

\* C23: the encoder is loaded once and reused, and a loading failure is
\* fatal.  After a construction that succeeded no later construction loads
\* the model again, all constructions that return hand out the same object,
\* and no construction, the failing one or a later one, returns an object
\* that has no loaded model.
C23_EncoderLoadedOnceAndFailureIsFatal ==
    /\ \A i \in 1..Len(constructions) : \A j \in 1..Len(constructions) :
        (i < j /\ ~constructions[i].raised) =>
            /\ ~constructions[j].loaded
            /\ ~constructions[j].raised
            /\ constructions[j].returned.v.id = constructions[i].returned.v.id
    /\ \A i \in 1..Len(constructions) :
        ~constructions[i].raised => constructions[i].returned.v.has_model

\* --------------------------------------------------------------- enrichment
\* prepare_text whose filter is `if p`: a blank part is kept.
PrepareText_KeepsBlank(doc) ==
    SelectSeq(<<IF Capitalize(doc.source_type) \in {Null, ""} THEN <<>>
                ELSE <<Capitalize(doc.source_type)>>,
                IF doc.hierarchy.level_1 \in {Null, ""} THEN <<>>
                ELSE <<doc.hierarchy.level_1>>,
                IF doc.hierarchy.level_2 \in {Null, ""} THEN <<>>
                ELSE <<doc.hierarchy.level_2>>,
                doc.payload.label,
                doc.payload.text_content>>,
              LAMBDA p : p # <<>>)

\* LegalEmbedder.prepare_text: context_parts, then the join of the parts that
\* pass `p and p.strip()`.
PrepareText(doc) ==
    LET hierarchy == doc.hierarchy
        source_type == Capitalize(doc.source_type)
        context_parts == <<StrPart(source_type),
                           StrPart(hierarchy.level_1),
                           StrPart(hierarchy.level_2),
                           TextPart(doc.payload.label),
                           TextPart(doc.payload.text_content)>>
    IN SelectSeq(context_parts, LAMBDA p : p # <<>>)

\* LegalEmbedder.embed_documents: the texts handed to model.encode
EmbedDocumentsTexts(documents) ==
    [i \in 1..Len(documents) |-> PrepareText(documents[i])]

\* LegalEmbedder.embed_query: the text handed to model.encode
EmbedQueryText(query) == query

\* The records the enrichment may meet: every part present, empty, blank or,
\* for a heading, null.
EnrichDocs ==
    {[id |-> 1, source_id |-> "constitucion_1993", source_type |-> st,
      hierarchy |-> [level_1 |-> l1, level_2 |-> l2, level_3 |-> Null],
      payload |-> [label |-> lb, text_content |-> tx]] :
        st \in {"constitucion", "ley", ""},
        l1 \in {Null, "", " ", "Titulo I"},
        l2 \in {Null, "", "Capitulo II"},
        lb \in {<<>>, <<" ">>, <<"Articulo", 1>>},
        tx \in {<<" ">>, <<"texto", 1>>}}

\* One record is about to be embedded.
EnrichInit ==
    /\ processed \in {<<d>> : d \in EnrichDocs}
    /\ enriched = None
    /\ EmbedderIdle
    /\ AudioIdle
    /\ statsFile = None /\ call = NoStoreCall
    /\ thread_pc = [t \in 1..MaxThreads |-> "idle"]
    /\ index_reads = 0 /\ metadata_reads = 0
    /\ raw_text = <<>> /\ parsed = NotParsed
    /\ indexFile = AbsentFile /\ metadataFile = AbsentFile
    /\ vector_store = [initialized |-> FALSE, index |-> None, documents |-> None]
    /\ llm_service = "None" /\ QueryIdle /\ last = NoCall /\ load_attempts = 0

\* The indexer and the embedder each prepare the record, and embed_query is
\* called on a user query.
Enrich ==
    /\ enriched = None
    /\ \E query \in VariantTexts :
        enriched' = Some([indexer |-> PrepareTextForEmbedding(processed[1]),
                          embedder |-> EmbedDocumentsTexts(processed)[1],
                          query |-> query,
                          query_text |-> EmbedQueryText(query)])
    /\ UNCHANGED <<embedderVars, audioVars, processed, statsFile, call, thread_pc,
                   index_reads, metadata_reads, raw_text, parsed, diskVars,
                   vector_store, queryVars, llm_service, last, load_attempts>>

EnrichNext == Enrich

EnrichSpec == EnrichInit /\ [][EnrichNext]_vars

\* The five parts of a record in the order of the enrichment.
EnrichParts(doc) ==
    <<<<Capitalize(doc.source_type)>>, <<doc.hierarchy.level_1>>,
      <<doc.hierarchy.level_2>>, doc.payload.label, doc.payload.text_content>>

\* A part that is neither absent, nor empty, nor blank.
PresentPart(p) == p \notin {<<>>, <<Null>>, <<"">>, <<" ">>}

ModuleTypes == {"teaching", "simulation", "advisor"}

\* What an external service does with one call: whether its client can be
\* created if it has to be, and whether the call itself succeeds.
ServiceOutcomes == [create_ok : BOOLEAN, call_ok : BOOLEAN]

\* A method of a service with a lazily created client (the `client` property,
\* then the API call inside try / except ... raise): [raised, client].
\* ElevenLabsService.text_to_speech, GoogleTTSService.text_to_speech and
\* GoogleSTTService.speech_to_text_from_bytes have this shape.
ClientCall(client, o) ==
    IF ~client /\ ~o.create_ok THEN [raised |-> TRUE, client |-> FALSE]
    ELSE [raised |-> ~o.call_ok, client |-> TRUE]

\* ElevenLabsService.speech_to_text_from_bytes: a plain HTTP request.
ElevenLabsSTT(o) == [raised |-> ~o.call_ok]

CallEntry(service, op, raised) == [service |-> service, op |-> op, raised |-> raised]

\* A routing that sends every module to ElevenLabs first.
UsesElevenLabs_Always(module_type) == TRUE

\* Lines 144 and 244: request.module_type == ModuleType.SIMULATION
UsesElevenLabs(module_type) == module_type = "simulation"

\* The TTS routing of process_query (lines 142-157) and of internal_tts
\* (lines 244-253): [raised, service_used, audio, clients, calls].  The audio
\* is named after the service that produced it.
SynthesizeSpeech(module_type, clients, oe, og) ==
    IF UsesElevenLabs(module_type)
    THEN LET e == ClientCall(clients.elevenlabs, oe)
             c1 == [clients EXCEPT !.elevenlabs = e.client]
         IN IF ~e.raised
            THEN [raised |-> FALSE, service_used |-> "elevenlabs",
                  audio |-> "elevenlabs_audio", clients |-> c1,
                  calls |-> <<CallEntry("elevenlabs", "tts", FALSE)>>]
            ELSE LET g == ClientCall(c1.google_tts, og)
                     c2 == [c1 EXCEPT !.google_tts = g.client]
                 IN [raised |-> g.raised, service_used |-> "google_fallback",
                     audio |-> "google_audio", clients |-> c2,
                     calls |-> <<CallEntry("elevenlabs", "tts", TRUE),
                                 CallEntry("google", "tts", g.raised)>>]
    ELSE LET g == ClientCall(clients.google_tts, og)
         IN [raised |-> g.raised, service_used |-> "google",
             audio |-> "google_audio",
             clients |-> [clients EXCEPT !.google_tts = g.client],
             calls |-> <<CallEntry("google", "tts", g.raised)>>]

\* Step 1 of process_query (lines 110-127): [status, clients, calls]; status
\* is 0 while the handler goes on.
QueryText(request, clients, se, sg) ==
    IF request.text # Null /\ request.text # ""
    THEN [status |-> 0, clients |-> clients, calls |-> <<>>]
    ELSE IF request.audio_base64 # Null /\ request.audio_base64 # ""
    THEN LET e == ElevenLabsSTT(se) IN
         IF ~e.raised
         THEN [status |-> 0, clients |-> clients,
               calls |-> <<CallEntry("elevenlabs", "stt", FALSE)>>]
         ELSE LET g == ClientCall(clients.google_stt, sg) IN
              [status |-> IF g.raised THEN 500 ELSE 0,
               clients |-> [clients EXCEPT !.google_stt = g.client],
               calls |-> <<CallEntry("elevenlabs", "stt", TRUE),
                           CallEntry("google", "stt", g.raised)>>]
    ELSE [status |-> 400, clients |-> clients, calls |-> <<>>]

ErrorResponse(status) == [status |-> status, service_used |-> "", audio |-> ""]
OkResponse(t) == [status |-> 200, service_used |-> t.service_used, audio |-> t.audio]

\* process_query: [response, clients, calls]
ProcessQuery(request, clients, se, sg, ragOk, oe, og) ==
    LET q == QueryText(request, clients, se, sg) IN
    IF q.status # 0
    THEN [response |-> ErrorResponse(q.status), clients |-> q.clients, calls |-> q.calls]
    ELSE IF ~ragOk
    THEN [response |-> ErrorResponse(500), clients |-> q.clients,
          calls |-> Append(q.calls, CallEntry("rag", "query", TRUE))]
    ELSE LET t == SynthesizeSpeech(request.module_type, q.clients, oe, og) IN
         [response |-> IF t.raised THEN ErrorResponse(500) ELSE OkResponse(t),
          clients |-> t.clients,
          calls |-> Append(q.calls, CallEntry("rag", "query", FALSE)) \o t.calls]

\* internal_tts: [response, clients, calls]
InternalTTS(request, clients, oe, og) ==
    LET t == SynthesizeSpeech(request.module_type, clients, oe, og) IN
    [response |-> IF t.raised THEN ErrorResponse(500) ELSE OkResponse(t),
     clients |-> t.clients, calls |-> t.calls]

ProcessQueryRequests ==
    [endpoint : {"process_query"}, text : {Null, "", "texto"},
     audio_base64 : {Null, "", "audio"}, module_type : ModuleTypes]
TTSRequests ==
    [endpoint : {"internal_tts"}, text : {"", "texto"}, audio_base64 : {Null},
     module_type : ModuleTypes]

AudioInit ==
    /\ AudioIdle
    /\ EmbedderIdle /\ enriched = None
    /\ processed = <<>> /\ statsFile = None /\ call = NoStoreCall
    /\ thread_pc = [t \in 1..MaxThreads |-> "idle"]
    /\ index_reads = 0 /\ metadata_reads = 0
    /\ raw_text = <<>> /\ parsed = NotParsed
    /\ indexFile = AbsentFile /\ metadataFile = AbsentFile
    /\ vector_store = [initialized |-> FALSE, index |-> None, documents |-> None]
    /\ llm_service = "None" /\ QueryIdle /\ last = NoCall /\ load_attempts = 0

audioFrame == <<embedderVars, enriched, processed, statsFile, call, thread_pc,
                index_reads, metadata_reads, raw_text, parsed, diskVars,
                vector_store, queryVars, llm_service, last, load_attempts>>

\* POST /api/process-query
ProcessQueryCall ==
    /\ audio_request = None
    /\ \E request \in ProcessQueryRequests, se \in ServiceOutcomes,
          sg \in ServiceOutcomes, ragOk \in BOOLEAN, oe \in ServiceOutcomes,
          og \in ServiceOutcomes :
        LET out == ProcessQuery(request, audio_clients, se, sg, ragOk, oe, og) IN
        /\ audio_request' = Some(request)
        /\ audio_clients' = out.clients
        /\ audio_calls' = out.calls
        /\ audio_response' = Some(out.response)
    /\ UNCHANGED audioFrame

\* POST /internal/tts
InternalTTSCall ==
    /\ audio_request = None
    /\ \E request \in TTSRequests, oe \in ServiceOutcomes, og \in ServiceOutcomes :
        LET out == InternalTTS(request, audio_clients, oe, og) IN
        /\ audio_request' = Some(request)
        /\ audio_clients' = out.clients
        /\ audio_calls' = out.calls
        /\ audio_response' = Some(out.response)
    /\ UNCHANGED audioFrame

\* The response was sent; the clients that were created stay.
AudioRespond ==
    /\ audio_request # None
    /\ audio_request' = None
    /\ audio_calls' = <<>>
    /\ audio_response' = None
    /\ UNCHANGED <<audio_clients, audioFrame>>

AudioNext ==
    \/ ProcessQueryCall
    \/ InternalTTSCall
    \/ AudioRespond

AudioSpec == AudioInit /\ [][AudioNext]_vars

\* The TTS calls among the calls made for the request.
TTSCalls == SelectSeq(audio_calls, LAMBDA c : c.op = "tts")

\* C25: TTS routing with fallback, in process_query and internal_tts.  For the
\* simulation module ElevenLabs is tried first and service_used is
\* "elevenlabs" exactly when that call succeeded; when it failed Google is
\* called once and a response that reports success says "google_fallback".
\* For teaching and advisor ElevenLabs TTS is never called and service_used
\* is "google".  A failed Google TTS call always ends in an error response.
C25_TTSRoutingWithFallback ==
    (audio_request.some /\ TTSCalls # <<>>) =>
        LET module_type == audio_request.v.module_type
            r == audio_response.v
        IN /\ module_type = "simulation" =>
                /\ TTSCalls[1].service = "elevenlabs"
                /\ ~TTSCalls[1].raised =>
                    (Len(TTSCalls) = 1 /\ r.status = 200 /\ r.service_used = "elevenlabs")
                /\ TTSCalls[1].raised =>
                    /\ Len(TTSCalls) = 2 /\ TTSCalls[2].service = "google"
                    /\ r.status = 200 => r.service_used = "google_fallback"
                /\ r.service_used = "elevenlabs" <=> ~TTSCalls[1].raised
           /\ module_type # "simulation" =>
                /\ TTSCalls = <<CallEntry("google", "tts", TTSCalls[1].raised)>>
                /\ r.status = 200 => r.service_used = "google"
           /\ (\E i \in 1..Len(TTSCalls) :
                  TTSCalls[i].service = "google" /\ TTSCalls[i].raised) =>
                (r.status = 500 /\ r.audio = "")
           /\ r.status = 200 =>
                r.audio = IF r.service_used = "elevenlabs" THEN "elevenlabs_audio"
                          ELSE "google_audio"

\* A spoken simulation query: ElevenLabs TTS failed and Google TTS answered.
C25_Witness ==
    /\ audio_request.some
    /\ audio_request.v.endpoint = "process_query"
    /\ audio_request.v.module_type = "simulation"
    /\ audio_request.v.text = Null
    /\ TTSCalls = <<CallEntry("elevenlabs", "tts", TRUE), CallEntry("google", "tts", FALSE)>>
    /\ audio_response.v.status = 200
    /\ audio_response.v.service_used = "google_fallback"

\* The position of the last match of `pattern` that starts before p, or 0.
LastMatchBefore(parser, pattern, text, p) ==
    LET before == {i \in 1..(p - 1) : text[i].kind \in PatternKinds(parser, pattern)}
    IN IF before = {} THEN 0
       ELSE CHOOSE i \in before : \A j \in before : j <= i

\* The heading of a level named `word` that the match at position i gives; no
\* heading when there is no match (i = 0).
HeadingOf(word, text, i) == IF i = 0 THEN <<>> ELSE <<word, text[i].num>>

\* The hierarchy of the claim: each level is the last match of its pattern
\* before p, and absent without one.
NearestPrecedingHierarchy(parser, text, p) ==
    LET lastOf(pattern, word) ==
            HeadingOf(word, text, LastMatchBefore(parser, pattern, text, p))
    IN CASE parser = "constitution" ->
                [level_1 |-> lastOf("TITULO", "Título"),
                 level_2 |-> JoinLevels(<<lastOf("CAPITULO", "Capítulo")>>),
                 level_3 |-> <<>>]
         [] parser = "civil_code" ->
                [level_1 |-> lastOf("LIBRO", "Libro"),
                 level_2 |-> JoinLevels(<<lastOf("SECCION", "Sección"),
                                          lastOf("TITULO", "Título"),
                                          lastOf("CAPITULO", "Capítulo")>>),
                 level_3 |-> <<>>]
         [] parser = "violence_law" ->
                [level_1 |-> lastOf("TITULO", "Título"),
                 level_2 |-> JoinLevels(<<lastOf("CAPITULO", "Capítulo"),
                                          lastOf("SUBCAPITULO", "Subcapítulo")>>),
                 level_3 |-> <<>>]

\* The same, with the two special cases of the civil code: a TÍTULO
\* PRELIMINAR heading is no title boundary, and it names level 1 as long as
\* no Libro starts before p.
NearestPrecedingWithPreliminar(parser, text, p) ==
    LET h == NearestPrecedingHierarchy(parser, text, p)
        titles == {i \in 1..(p - 1) : text[i].kind = "TITULO"}
        title == IF titles = {} THEN 0
                 ELSE CHOOSE i \in titles : \A j \in titles : j <= i
    IN IF parser # "civil_code" THEN h
       ELSE [level_1 |-> IF h.level_1 = <<>>
                            /\ \E i \in 1..(p - 1) : text[i].kind = "TITULO_PRELIMINAR"
                         THEN <<"Título Preliminar">> ELSE h.level_1,
             level_2 |-> JoinLevels(<<HeadingOf("Sección", text,
                                                LastMatchBefore(parser, "SECCION", text, p)),
                                      HeadingOf("Título", text, title),
                                      HeadingOf("Capítulo", text,
                                                LastMatchBefore(parser, "CAPITULO", text, p))>>),
             level_3 |-> <<>>]

\* Every article marker of the text whose id was not seen before it has its
\* record: parsing went through whatever headings are missing.
EveryArticleParsed ==
    \A p \in 1..Len(raw_text) :
        raw_text[p].kind = "ARTICULO" =>
            \E n \in 1..Len(parsed.articles) :
                /\ parsed.articles[n].kind = "article"
                /\ parsed.articles[n].id = ArticleId(parsed.parser, raw_text[p].num)

C27_SuppliedParametersAreUsed ==
    (searches # <<>> /\ searches[1].phase = "primary") =>
        /\ searches[1].k = IF top_k.some THEN top_k.v ELSE rag_top_k
        /\ searches[1].threshold =
            IF score_threshold.some THEN score_threshold.v ELSE rag_score_threshold

\* ------------------------------------------------- the relaxed threshold
\* The thresholds a caller of RAGService.query itself may pass: the parameter
\* is an Optional[float] that query does not validate.
DirectThresholds ==
    {None, Some(-50), Some(-25), Some(0), Some(25), Some(100)}

\* The inner products of normalized vectors, on a grid.
ScoreRange == {5 * i : i \in -20..20}

\* The artifacts of a full corpus are deployed.
RelaxInit ==
    /\ indexFile = [state |-> "ok", data |-> Vectors(MaxDocs)]
    /\ metadataFile = [state |-> "ok", data |-> Records(MaxDocs)]
    /\ vector_store = [initialized |-> FALSE, index |-> None, documents |-> None]
    /\ llm_service = "None"
    /\ QueryIdle
    /\ last = NoCall
    /\ load_attempts = 0
    /\ OfflineIdle

\* A call of query by a caller inside the process.
StartDirectQuery == StartQueryFrom({None}, DirectThresholds)

RelaxNext ==
    \/ StartDirectQuery
    \/ RewriteStep
    \/ PrimarySearch
    \/ CascadeSearch
    \/ AnswerStep
    \/ Finish

RelaxSpec == RelaxInit /\ [][RelaxNext]_vars

\* C28: every cascade search uses 0.8 times the threshold of the primary
\* search, and that threshold is never stricter: a score that clears the
\* primary threshold clears the cascade threshold.
C28_CascadeThresholdIsNeverStricter ==
    \A i \in 2..Len(searches) :
        /\ 10 * searches[i].threshold = 8 * searches[1].threshold
        /\ \A score \in ScoreRange :
            ~BelowThreshold(score, Some(searches[1].threshold)) =>
                ~BelowThreshold(score, Some(searches[i].threshold))

\* ------------------------------------------------- the flag of the store
\* The callers that only use the store: retrieve_only and health_check.
LoadNext ==
    \/ RetrieveOnly
    \/ HealthCheck
    \/ Finish

LoadSpec == Init /\ [][LoadNext]_vars

\* C29: _initialized = true implies that the index and the metadata were
\* both loaded, from the files on disk; a load that fails part-way (a file
\* missing or unreadable) leaves _initialized = false; and once _initialized
\* is true no call loads again or replaces the index or the metadata.
C29_InitializedMeansBothLoaded ==
    /\ [](vector_store.initialized =>
            /\ vector_store.index = Some(indexFile.data)
            /\ vector_store.documents = Some(metadataFile.data))
    /\ []((indexFile.state # "ok" \/ metadataFile.state # "ok") =>
            ~vector_store.initialized)
    /\ [][vector_store.initialized =>
            (vector_store' = vector_store /\ load_attempts' = load_attempts)]_vars

\* The metadata file is unreadable: two calls each read the index, failed on
\* the metadata and left the store not initialized.
C29_Witness ==
    /\ indexFile.state = "ok" /\ metadataFile.state = "corrupt"
    /\ ~vector_store.initialized
    /\ vector_store.index = Some(indexFile.data)
    /\ vector_store.documents = None
    /\ load_attempts = 2
    /\ last.raised /\ last.attempted

\* -------------------------------------------------------------- termination
\* The deployments a query may run on: the index of a full corpus, with its
\* metadata, with metadata that lacks the last record, or without metadata.
TerminationInit ==
    /\ indexFile = [state |-> "ok", data |-> Vectors(MaxDocs)]
    /\ metadataFile \in {[state |-> "ok", data |-> Records(MaxDocs)],
                         [state |-> "ok", data |-> Records(MaxDocs - 1)],
                         [state |-> "absent", data |-> <<>>]}
    /\ vector_store = [initialized |-> FALSE, index |-> None, documents |-> None]
    /\ llm_service = "None"
    /\ QueryIdle
    /\ last = NoCall
    /\ load_attempts = 0
    /\ OfflineIdle

\* The step of query that is pending: a rewrite, an embedding and its search,
\* or the answer.
QueryStep ==
    \/ RewriteStep
    \/ PrimarySearch
    \/ CascadeSearch
    \/ AnswerStep

TerminationNext ==
    \/ StartQuery
    \/ QueryStep
    \/ Finish

\* Each external call returns or raises: the pending step of query is
\* eventually taken.
TerminationSpec ==
    TerminationInit /\ [][TerminationNext]_vars /\ WF_vars(QueryStep)

QueryRunning == pc \in {"rewrite", "primary", "cascade", "answer"}
QueryEnded == pc \in {"returned", "raised"}

\* The searches a query may make: the primary one and one per entry of
\* queries_optimizadas after the first.
MaxSearches ==
    IF rewrite_info.some /\ rewrite_info.v.queries_optimizadas # <<>>
    THEN 1 + (Len(rewrite_info.v.queries_optimizadas) - 1)
    ELSE 1

\* C30: every call of query terminates when its external calls return or
\* raise.  It makes at most one rewrite call, at most 1 + (n - 1) embeddings
\* and searches for n entries of queries_optimizadas, and at most one
\* generation call; it ends by raising or by returning a response whose
\* total_sources_found is the length of its sources.
C30_QueryTerminates ==
    /\ [](pc = "rewrite" =>
            (rewrite_outcome = NoRewrite /\ embeds = <<>> /\ searches = <<>>))
    /\ [][pc' = "rewrite" => pc = "idle"]_vars
    /\ [](Len(searches) <= MaxSearches /\ Len(embeds) <= MaxSearches)
    /\ [](Len(generations) <= 1)
    /\ [](pc = "returned" =>
            /\ response.some
            /\ response.v.total_sources_found = Len(response.v.sources))
    /\ [](pc = "raised" => (response = None /\ failed_at # "none"))
    /\ (QueryRunning ~> QueryEnded)

\* A query that used everything it may use has returned: one rewrite with
\* the longest list of variants, a search per variant, one generation, and
\* two sources.
C30_Witness ==
    /\ pc = "returned"
    /\ rewrite_outcome.ended = "returned"
    /\ Len(rewrite_info.v.queries_optimizadas) = MaxVariants
    /\ Len(searches) = MaxVariants
    /\ Len(generations) = 1
    /\ response.v.total_sources_found = 2
    /\ Len(response.v.sources) = 2

====
